---- MODULE Spec2Model ----
(***************************************************************************)
(* Consumable-capacity accounting of the structured device allocator:      *)
(* ConsumedCapacity / ConsumedCapacityCollection, the share-ID factory     *)
(* (internal package) and CmpRequestOverCapacity (experimental package).   *)
(*                                                                         *)
(* Go pointers are modelled by a heap: mem is a sequence of Quantity       *)
(* cells, an address is an index into it and 0 is the nil pointer.  A      *)
(* ConsumedCapacity (map[QualifiedName]*resource.Quantity) is a function   *)
(* from names to addresses, so that two maps can share a cell.             *)
(***************************************************************************)
EXTENDS Integers, Sequences, FiniteSets, TLC

VARIABLES
    mem,        \* heap of resource.Quantity cells (addresses 1..Len(mem))
    coll,       \* the ConsumedCapacityCollection: DeviceID -> ConsumedCapacity
    arg,        \* the DeviceConsumedCapacity the caller passed to the last call
    lastOp,     \* "none", "Insert" or "Remove": the last collection call
    lastSub,    \* value of the device's ConsumedCapacity right after the last Remove's Sub
    collInit,   \* history: value of the collection at construction
    pend,       \* history: inserted-and-not-yet-removed count per argument value
    balanced,   \* history: FALSE once a Remove had no earlier Insert to undo
    insNonZero, \* history: FALSE once an Insert's argument had no non-zero quantity
    nOps,       \* number of collection calls made
    setObjs,    \* heap of sets.Set[SharedDeviceID] objects (references 1..Len(setObjs))
    usedRef,    \* f.usedIDs: the set object the factory holds
    mu,         \* f.mu: "free" or the thread that holds it
    pc,         \* position of each thread in its factory call
    loc,        \* each thread's call: operation, arguments and locals
    win,        \* history: IDs issued since the last DeleteShareID took effect
    lastDel,    \* history: the used set around the last DeleteShareID
    lastGen,    \* history: each thread's latest GenerateNewShareID call
    nCalls,     \* number of factory calls begun
    fmem,       \* heap of the Quantity cells the arguments of CmpRequestOverCapacity point to
    currentConsumedCapacity,   \* argument: committed consumption, name -> address
    deviceRequestCapacity,     \* argument: <<>> (nil, or nil Requests) or <<name -> Quantity>>
    allowMultipleAllocations,  \* argument: <<>> (nil) or <<b>>
    capacity,                  \* argument: name -> DeviceCapacity
    allocatingCapacity,        \* argument: <<>> (nil) or <<name -> address>>
    fitIn,      \* history: the arguments' values when the caller built them
    fitRes,     \* outcome of the last call
    fitOrder,   \* order in which the last call's range visited the capacity map
    fitPrev,    \* how the call before the last one ended ("none": no such call)
    fitLess,    \* a call on other committed consumption: [cur, res]
    fitClone,   \* history: the values the clone of the last call held when it returned Fit
    fitGot,     \* the last result of GetConsumedCapacityFromRequest: [res, out]
    nFit,       \* number of CmpRequestOverCapacity calls made
    \* calculateConsumedCapacity and violatesPolicy called on their own
    polMem,     \* heap of Quantity cells of these calls
    polPolicy,  \* <<>> (a nil policy pointer) or <<policy>>, Default an address
    polReq,     \* the request pointer of the caller (0 is nil)
    polIn,      \* history: request and policy by value when the caller built them
    polOut,     \* calculateConsumedCapacity(request): [st, ptr, val]
    polAgain,   \* calculateConsumedCapacity(its own result): [st, ptr, val]
    polArg,     \* <<>> or <<q>>: the quantity last passed to violatesPolicy
    polViol,    \* what that violatesPolicy call returned: "none", "true", "false", "panic"
    \* an AllocatedCapacityCollection (share.go) and a caller that keeps an argument
    smem,       \* the heap: a sequence of Quantity cells, address = index
    scoll,      \* the collection: DeviceID -> (name -> address)
    sheld,      \* the SharedDeviceAllocation the caller kept after Insert: [id, cc]
    slastOp,    \* the last call: "none", "InsertHeld", "Insert", "Remove", "Change"
    nShare,     \* calls made so far
    \* the validator applied to a device capacity declaration
    valCap,     \* the declaration: [Value, RequestPolicy], the policy <<>> or <<p>>
    valOut,     \* the validator's result: [done, errs], errs the failures reported
    valRun,     \* a request checked against the accepted declaration: [done, req, res, got]
    matchC,     \* the matchAttributeConstraint, its fields as in the code
    matchAdded, \* history: <<requestName, device>> of the adds that returned true,
                \* not yet removed
    matchLast,  \* history: the last call on matchC: [op, ret, before]
    distinctC,  \* the distinctAttributeConstraint, its fields as in the code
    distinctAdded, \* history: as matchAdded, for distinctC
    distinctLast   \* history: the last call on distinctC: [op, ret, before, distinct]

collVars ==
    <<mem, coll, arg, lastOp, lastSub, collInit, pend, balanced, insNonZero, nOps>>

factVars == <<setObjs, usedRef, mu, pc, loc, win, lastDel, lastGen, nCalls>>

fitVars ==
    <<fmem, currentConsumedCapacity, deviceRequestCapacity, allowMultipleAllocations,
      capacity, allocatingCapacity, fitIn, fitRes, fitOrder, fitPrev, fitLess,
      fitClone, fitGot, nFit>>

polVars == <<polMem, polPolicy, polReq, polIn, polOut, polAgain, polArg, polViol>>

shareVars == <<smem, scoll, sheld, slastOp, nShare>>

valVars == <<valCap, valOut, valRun>>

matchVars == <<matchC, matchAdded, matchLast>>

distinctVars == <<distinctC, distinctAdded, distinctLast>>

consVars == <<matchVars, distinctVars>>

vars == <<collVars, factVars, fitVars, polVars, shareVars, valVars, consVars>>

(***************************************************************************)
(* Bounds of the model.                                                    *)
(***************************************************************************)
MaxOps == 3         \* collection calls per behaviour
MaxCalls == 3       \* factory calls per behaviour
MaxTry == 1         \* largest maxTry passed to GenerateNewShareID
MaxFit == 2         \* CmpRequestOverCapacity calls per behaviour

Names == {"c0", "c1"}
NameSeq == <<"c0", "c1">>
Devices == {"d1", "d2"}
DeviceSeq == <<"d1", "d2">>

EmptyMap == [x \in {} |-> 0]

MapPut(f, k, v) == [x \in (DOMAIN f) \cup {k} |-> IF x = k THEN v ELSE f[x]]

MapDel(f, k) == [x \in (DOMAIN f) \ {k} |-> f[x]]

(***************************************************************************)
(* resource.Quantity: a number and its format.  Cmp, IsZero, Add and Sub   *)
(* are numeric; Add and Sub take the operand's format when the receiver    *)
(* is zero.  Go's == on two Quantity structs compares every field, here    *)
(* the record equality.                                                    *)
(***************************************************************************)
Q(n) == [v |-> n, f |-> "BinarySI"]

QDec(n) == [v |-> n, f |-> "DecimalSI"]

QCmp(a, b) == IF a.v < b.v THEN -1 ELSE IF a.v > b.v THEN 1 ELSE 0

QIsZero(a) == a.v = 0

QAdd(q, y) == [v |-> q.v + y.v, f |-> IF q.v = 0 THEN y.f ELSE q.f]

QSub(q, y) == [v |-> q.v - y.v, f |-> IF q.v = 0 THEN y.f ELSE q.f]

(***************************************************************************)
(* Heap helpers.                                                           *)
(***************************************************************************)
\* a fresh cell holding q: q := x.DeepCopy(); p := &q
Alloc(m, q) == [mem |-> Append(m, q), addr |-> Len(m) + 1]

\* a write that is lost
StoreDropped(m, a, q) == m

\* *p = q
Store(m, a, q) == [m EXCEPT ![a] = q]

\* map[QualifiedName]resource.Quantity seen through the pointers
CapVal(m, s) == [n \in DOMAIN s |-> m[s[n]]]

CollVal(m, c) == [d \in DOMAIN c |-> CapVal(m, c[d])]

(***************************************************************************)
(* ConsumedCapacity                                                        *)
(***************************************************************************)
RECURSIVE CloneFrom(_, _, _, _)
CloneFrom(m, s, i, acc) ==
    IF i > Len(NameSeq) THEN [mem |-> m, cc |-> acc]
    ELSE LET n == NameSeq[i] IN
         IF n \in DOMAIN s
         THEN LET a == Alloc(m, m[s[n]]) IN
              CloneFrom(a.mem, s, i + 1, MapPut(acc, n, a.addr))
         ELSE CloneFrom(m, s, i + 1, acc)

\* a shallow copy: the clone's entries are the receiver's pointers
CloneShared(m, s) == [mem |-> m, cc |-> s]

\* func (s ConsumedCapacity) Clone() ConsumedCapacity
Clone(m, s) == CloneFrom(m, s, 1, EmptyMap)

RECURSIVE AddFrom(_, _, _, _)
AddFrom(m, s, added, i) ==
    IF i > Len(NameSeq) THEN [mem |-> m, cc |-> s]
    ELSE LET n == NameSeq[i] IN
         IF n \notin DOMAIN added THEN AddFrom(m, s, added, i + 1)
         ELSE LET val == m[added[n]] IN
              IF n \in DOMAIN s
              THEN AddFrom(Store(m, s[n], QAdd(m[s[n]], val)), s, added, i + 1)
              ELSE LET a == Alloc(m, val) IN
                   AddFrom(a.mem, MapPut(s, n, a.addr), added, i + 1)

\* func (s ConsumedCapacity) Add(addedCapacity ConsumedCapacity)
Add(m, s, added) == AddFrom(m, s, added, 1)

RECURSIVE SubFrom(_, _, _, _)
SubFrom(m, s, sub, i) ==
    IF i > Len(NameSeq) THEN m
    ELSE LET n == NameSeq[i] IN
         IF n \in DOMAIN sub /\ n \in DOMAIN s
         THEN SubFrom(Store(m, s[n], QSub(m[s[n]], m[sub[n]])), s, sub, i + 1)
         ELSE SubFrom(m, s, sub, i + 1)

\* Sub that clears every entry of the receiver
SubClears(m, s, sub) ==
    [a \in DOMAIN m |-> IF a \in {s[n] : n \in DOMAIN s} THEN Q(0) ELSE m[a]]

\* Sub that adds instead of subtracting
SubAdds(m, s, sub) == Add(m, s, sub).mem

\* func (s ConsumedCapacity) Sub(subtractedCapacity ConsumedCapacity)
\* the map itself is not changed: no entry is created or deleted
Sub(m, s, sub) == SubFrom(m, s, sub, 1)

\* Empty that looks at the number of entries only
EmptyByLen(m, s) == DOMAIN s = {}

\* func (s ConsumedCapacity) Empty() bool
Empty(m, s) == \A n \in DOMAIN s : QIsZero(m[s[n]])

(***************************************************************************)
(* DeviceConsumedCapacity and ConsumedCapacityCollection                   *)
(***************************************************************************)
RECURSIVE NewCapFrom(_, _, _, _)
NewCapFrom(m, cap, i, acc) ==
    IF i > Len(NameSeq) THEN [mem |-> m, cc |-> acc]
    ELSE LET n == NameSeq[i] IN
         IF n \in DOMAIN cap
         THEN LET a == Alloc(m, cap[n]) IN
              NewCapFrom(a.mem, cap, i + 1, MapPut(acc, n, a.addr))
         ELSE NewCapFrom(m, cap, i + 1, acc)

\* func NewDeviceConsumedCapacity(deviceID, consumedCapacity): one cell per name
NewDeviceConsumedCapacity(m, id, cap) ==
    LET r == NewCapFrom(m, cap, 1, EmptyMap) IN
    [mem |-> r.mem, dcc |-> [id |-> id, cc |-> r.cc]]

\* Insert that replaces the device's entry instead of adding to it
InsertReplaces(m, c, cap) ==
    LET r == Clone(m, cap.cc) IN
    [mem |-> r.mem, coll |-> MapPut(c, cap.id, r.cc)]

\* func (c ConsumedCapacityCollection) Insert(cap DeviceConsumedCapacity)
Insert(m, c, cap) ==
    IF cap.id \in DOMAIN c
    THEN LET r == Add(m, c[cap.id], cap.cc) IN
         [mem |-> r.mem, coll |-> [c EXCEPT ![cap.id] = r.cc]]
    ELSE LET r == Clone(m, cap.cc) IN
         [mem |-> r.mem, coll |-> MapPut(c, cap.id, r.cc)]

\* Remove that never deletes the device key
RemoveKeepsKey(m, c, cap) ==
    IF cap.id \in DOMAIN c
    THEN [mem |-> Sub(m, c[cap.id], cap.cc), coll |-> c]
    ELSE [mem |-> m, coll |-> c]

\* func (c ConsumedCapacityCollection) Remove(cap DeviceConsumedCapacity)
Remove(m, c, cap) ==
    IF cap.id \in DOMAIN c
    THEN LET m1 == Sub(m, c[cap.id], cap.cc) IN
         IF Empty(m1, c[cap.id])
         THEN [mem |-> m1, coll |-> MapDel(c, cap.id)]
         ELSE [mem |-> m1, coll |-> c]
    ELSE [mem |-> m, coll |-> c]

(***************************************************************************)
(* Garbage collection: cells no live pointer reaches are dropped and the   *)
(* remaining addresses renumbered in order.  Shared cells stay shared.     *)
(***************************************************************************)
AddrsOf(s) == {s[n] : n \in DOMAIN s}

Roots(c, a) == UNION {AddrsOf(c[d]) : d \in DOMAIN c} \cup AddrsOf(a.cc)

Rank(R, x) == Cardinality({y \in R : y <= x})

Rename(R, s) == [n \in DOMAIN s |-> Rank(R, s[n])]

Collect(m, c, a) ==
    LET R == Roots(c, a) IN
    [mem  |-> [i \in 1..Cardinality(R) |-> m[CHOOSE x \in R : Rank(R, x) = i]],
     coll |-> [d \in DOMAIN c |-> Rename(R, c[d])],
     arg  |-> [id |-> a.id, cc |-> Rename(R, a.cc)]]

(***************************************************************************)
(* The collection driven by a caller: any sequence of Insert and Remove.   *)
(***************************************************************************)
\* arguments of the calls: every set of names with quantity 1, and a zero quantity
CapValues ==
    UNION {[S -> {Q(1)}] : S \in SUBSET Names} \cup {[n \in {"c0"} |-> Q(0)]}

DCCValues == {[id |-> d, cap |-> f] : d \in Devices, f \in CapValues}

\* collections the calls below build from the empty one
InitCollValues ==
    { EmptyMap,
      [d \in {"d1"} |-> [n \in {"c0"} |-> Q(1)]],
      [d \in {"d1"} |-> [n \in Names |-> Q(1)]],
      [d \in Devices |-> IF d = "d1" THEN [n \in {"c0"} |-> Q(1)]
                                     ELSE [n \in {"c1"} |-> Q(2)]] }

NoArg == [id |-> "none", cc |-> EmptyMap]

RECURSIVE BuildColl(_, _, _, _)
BuildColl(m, cv, i, acc) ==
    IF i > Len(DeviceSeq) THEN [mem |-> m, coll |-> acc]
    ELSE LET d == DeviceSeq[i] IN
         IF d \in DOMAIN cv
         THEN LET r == NewCapFrom(m, cv[d], 1, EmptyMap) IN
              BuildColl(r.mem, cv, i + 1, MapPut(acc, d, r.cc))
         ELSE BuildColl(m, cv, i + 1, acc)

CollInit ==
    \E cv \in InitCollValues :
        LET r == BuildColl(<<>>, cv, 1, EmptyMap) IN
        /\ mem = r.mem
        /\ coll = r.coll
        /\ collInit = cv
    /\ arg = NoArg
    /\ lastOp = "none"
    /\ lastSub = EmptyMap
    /\ pend = [x \in DCCValues |-> 0]
    /\ balanced = TRUE
    /\ insNonZero = TRUE
    /\ nOps = 0

\* the caller builds d and calls c.Insert(d)
DoInsert(d) ==
    /\ nOps < MaxOps
    /\ LET a == NewDeviceConsumedCapacity(mem, d.id, d.cap)
           r == Insert(a.mem, coll, a.dcc)
           g == Collect(r.mem, r.coll, a.dcc)
       IN /\ mem' = g.mem
          /\ coll' = g.coll
          /\ arg' = g.arg
    /\ lastOp' = "Insert"
    /\ pend' = [pend EXCEPT ![d] = @ + 1]
    /\ insNonZero' = (insNonZero /\ \E n \in DOMAIN d.cap : d.cap[n].v > 0)
    /\ nOps' = nOps + 1
    /\ UNCHANGED <<lastSub, collInit, balanced>>
    /\ UNCHANGED <<factVars, fitVars, polVars, shareVars, valVars, consVars>>

\* the caller builds d and calls c.Remove(d)
DoRemove(d) ==
    /\ nOps < MaxOps
    /\ LET a == NewDeviceConsumedCapacity(mem, d.id, d.cap)
           r == Remove(a.mem, coll, a.dcc)
           g == Collect(r.mem, r.coll, a.dcc)
       IN /\ mem' = g.mem
          /\ coll' = g.coll
          /\ arg' = g.arg
          /\ lastSub' = IF d.id \in DOMAIN coll
                        THEN CapVal(r.mem, coll[d.id])
                        ELSE EmptyMap
    /\ lastOp' = "Remove"
    /\ IF pend[d] > 0
       THEN pend' = [pend EXCEPT ![d] = @ - 1] /\ UNCHANGED balanced
       ELSE balanced' = FALSE /\ UNCHANGED pend
    /\ nOps' = nOps + 1
    /\ UNCHANGED <<collInit, insNonZero>>
    /\ UNCHANGED <<factVars, fitVars, polVars, shareVars, valVars, consVars>>

CollNext ==
    \/ \E d \in DCCValues : DoInsert(d)
    \/ \E d \in DCCValues : DoRemove(d)

(***************************************************************************)
(* AllocatedCapacity and AllocatedCapacityCollection of share.go, the      *)
(* collection of package structured.  Methods carry the receiver's type    *)
(* in their names.                                                         *)
(***************************************************************************)
\* func (s AllocatedCapacity) Clone() AllocatedCapacity
AllocatedCapacityClone(m, s) == CloneFrom(m, s, 1, EmptyMap)

RECURSIVE AllocatedCapacityAddFrom(_, _, _, _)
AllocatedCapacityAddFrom(m, s, addedShare, i) ==
    IF i > Len(NameSeq) THEN [mem |-> m, cc |-> s]
    ELSE LET n == NameSeq[i] IN
         IF n \notin DOMAIN addedShare THEN AllocatedCapacityAddFrom(m, s, addedShare, i + 1)
         ELSE IF n \in DOMAIN s
         THEN AllocatedCapacityAddFrom(Store(m, s[n], QAdd(m[s[n]], m[addedShare[n]])),
                                       s, addedShare, i + 1)
         \* s[name] = quantity: the entry is the argument's pointer
         ELSE AllocatedCapacityAddFrom(m, MapPut(s, n, addedShare[n]), addedShare, i + 1)

\* func (s AllocatedCapacity) Add(addedShare AllocatedCapacity)
AllocatedCapacityAdd(m, s, addedShare) == AllocatedCapacityAddFrom(m, s, addedShare, 1)

\* func (s AllocatedCapacity) Sub(substractedShare AllocatedCapacity)
AllocatedCapacitySub(m, s, substractedShare) == SubFrom(m, s, substractedShare, 1)

\* func (s AllocatedCapacity) HasNoShare() bool
HasNoShare(m, s) == \A n \in DOMAIN s : QIsZero(m[s[n]])

\* func NewSharedDeviceAllocation(deviceID, consumedCapacity): one cell per name
NewSharedDeviceAllocation(m, id, cap) ==
    LET r == NewCapFrom(m, cap, 1, EmptyMap) IN
    [mem |-> r.mem, dcc |-> [id |-> id, cc |-> r.cc]]

\* func (c AllocatedCapacityCollection) Insert(new SharedDeviceAllocation)
AllocatedCapacityCollectionInsert(m, c, new) ==
    IF new.id \in DOMAIN c
    THEN LET r == AllocatedCapacityAdd(m, c[new.id], new.cc) IN
         [mem |-> r.mem, coll |-> [c EXCEPT ![new.id] = r.cc]]
    ELSE LET r == AllocatedCapacityClone(m, new.cc) IN
         [mem |-> r.mem, coll |-> MapPut(c, new.id, r.cc)]

\* func (c AllocatedCapacityCollection) Remove(new SharedDeviceAllocation)
AllocatedCapacityCollectionRemove(m, c, new) ==
    IF new.id \in DOMAIN c
    THEN LET m1 == AllocatedCapacitySub(m, c[new.id], new.cc) IN
         IF HasNoShare(m1, c[new.id])
         THEN [mem |-> m1, coll |-> MapDel(c, new.id)]
         ELSE [mem |-> m1, coll |-> c]
    ELSE [mem |-> m, coll |-> c]

(***************************************************************************)
(* The AllocatedCapacityCollection driven by a caller that keeps one of    *)
(* the allocations it inserted and may change its quantities later.        *)
(***************************************************************************)
\* arguments of the calls: every non-empty set of names with quantity 1
ShareValues ==
    {[id |-> d, cap |-> f] :
        d \in Devices, f \in UNION {[S -> {Q(1)}] : S \in (SUBSET Names) \ {{}}}}

ShareInit ==
    /\ smem = <<>>
    /\ scoll = EmptyMap
    /\ sheld = NoArg
    /\ slastOp = "none"
    /\ nShare = 0

\* the caller builds d, calls c.Insert(d) and keeps d
DoShareInsertHeld(d) ==
    /\ nShare < MaxOps
    /\ sheld = NoArg
    /\ LET a == NewSharedDeviceAllocation(smem, d.id, d.cap)
           r == AllocatedCapacityCollectionInsert(a.mem, scoll, a.dcc)
       IN /\ smem' = r.mem
          /\ scoll' = r.coll
          /\ sheld' = a.dcc
    /\ slastOp' = "InsertHeld"
    /\ nShare' = nShare + 1
    /\ UNCHANGED <<collVars, factVars, fitVars, polVars, valVars, consVars>>

\* the caller builds d, calls c.Insert(d) and drops d
DoShareInsert(d) ==
    /\ nShare < MaxOps
    /\ LET a == NewSharedDeviceAllocation(smem, d.id, d.cap)
           r == AllocatedCapacityCollectionInsert(a.mem, scoll, a.dcc)
       IN /\ smem' = r.mem
          /\ scoll' = r.coll
    /\ slastOp' = "Insert"
    /\ nShare' = nShare + 1
    /\ UNCHANGED sheld
    /\ UNCHANGED <<collVars, factVars, fitVars, polVars, valVars, consVars>>

\* the caller builds d, calls c.Remove(d) and drops d
DoShareRemove(d) ==
    /\ nShare < MaxOps
    /\ LET a == NewSharedDeviceAllocation(smem, d.id, d.cap)
           r == AllocatedCapacityCollectionRemove(a.mem, scoll, a.dcc)
       IN /\ smem' = r.mem
          /\ scoll' = r.coll
    /\ slastOp' = "Remove"
    /\ nShare' = nShare + 1
    /\ UNCHANGED sheld
    /\ UNCHANGED <<collVars, factVars, fitVars, polVars, valVars, consVars>>

\* the caller adds one to a quantity of the allocation it kept
DoShareChange(n) ==
    /\ nShare < MaxOps
    /\ sheld # NoArg
    /\ n \in DOMAIN sheld.cc
    /\ smem' = Store(smem, sheld.cc[n], QAdd(smem[sheld.cc[n]], Q(1)))
    /\ slastOp' = "Change"
    /\ nShare' = nShare + 1
    /\ UNCHANGED <<scoll, sheld>>
    /\ UNCHANGED <<collVars, factVars, fitVars, polVars, valVars, consVars>>

ShareNext ==
    \/ \E d \in ShareValues : DoShareInsertHeld(d)
    \/ \E d \in ShareValues : DoShareInsert(d)
    \/ \E d \in ShareValues : DoShareRemove(d)
    \/ \E n \in Names : DoShareChange(n)

(***************************************************************************)
(* UniqueHexStringFactory.  A SharedDeviceID is the pair <<device, id>>;   *)
(* sets.Set is a Go map, so f.usedIDs is a reference to a set object.      *)
(* Every method locks f.mu first and unlocks it when it returns (defer).   *)
(***************************************************************************)
Threads == {"t1", "t2"}

\* the hex strings rand.Read and hex.EncodeToString can yield
IDs == {"0a", "0b"}

\* func MakeSharedDeviceID(deviceID DeviceID, shareID string) SharedDeviceID
MakeSharedDeviceID(dev, id) == <<dev, id>>

Keys == {MakeSharedDeviceID(dev, id) : dev \in Devices, id \in IDs}

Used == setObjs[usedRef]

KeysOf(S, dev) == {k \in S : k[1] = dev}

\* a Lock that never waits
LockNoWait(t) == TRUE

\* f.mu.Lock(): proceeds only when no thread holds the mutex
CanLock(t) == mu = "free"

\* a test that takes every candidate for unused
NeverUsed(S, key) == TRUE

\* if _, exists := f.usedIDs[sharedDeviceID]; !exists  (GenerateNewShareID)
IsUnused(S, key) == key \notin S

\* count += 1 was done; if count > maxTry { return error }
TriedOut(count, maxTry) == count > maxTry

\* if _, exists := f.usedIDs[sharedDeviceID]; !exists { delete(f.usedIDs, sharedDeviceID) }
DeleteKey(S, key) == IF key \notin S THEN S \ {key} ELSE S

GenPcs == {"genLock", "genDraw", "genCheck", "genInsert", "genUnlock"}

\* positions between Lock and Unlock
GuardedPcs ==
    {"genDraw", "genCheck", "genInsert", "genUnlock", "delBody", "delUnlock",
     "setBody", "setUnlock"}

\* before: history, the used set when the call took the lock
NoCall == [op |-> "none", dev |-> "none", id |-> "", ref |-> 0,
           maxTry |-> 0, count |-> 0, cand |-> "", draws |-> 0, res |-> "none",
           before |-> {}]

NoGen == [dev |-> "none", id |-> "", ov |-> {}, stale |-> FALSE]

NewWin(S) == [base |-> S, issued |-> {}, n |-> 0, stale |-> FALSE, replaced |-> FALSE]

NoDel == [done |-> FALSE, key |-> <<"none", "">>, before |-> {}, after |-> {}]

\* NewUniqueHexStringFactory(nBytes); object 2 is a set the caller owns
FactInit ==
    /\ \E S \in SUBSET KeysOf(Keys, "d1") : setObjs = <<{}, S>>
    /\ usedRef = 1
    /\ mu = "free"
    /\ pc = [t \in Threads |-> "idle"]
    /\ loc = [t \in Threads |-> NoCall]
    /\ win = NewWin({})
    /\ lastDel = NoDel
    /\ lastGen = [t \in Threads |-> NoGen]
    /\ nCalls = 0

\* thread t calls f.GenerateNewShareID(dev, maxTry)
GenCall(t, dev, maxTry) ==
    /\ pc[t] = "idle"
    /\ nCalls < MaxCalls
    /\ nCalls' = nCalls + 1
    /\ pc' = [pc EXCEPT ![t] = "genLock"]
    /\ loc' = [loc EXCEPT ![t] = [NoCall EXCEPT !.op = "gen", !.dev = dev, !.maxTry = maxTry]]
    /\ lastGen' = [u \in Threads |->
                     IF u = t
                     THEN [NoGen EXCEPT !.dev = dev,
                                        !.ov = {x \in Threads \ {t} : pc[x] \in GenPcs}]
                     ELSE IF pc[u] \in GenPcs
                          THEN [lastGen[u] EXCEPT !.ov = @ \cup {t}]
                          ELSE [lastGen[u] EXCEPT !.ov = @ \ {t}]]
    /\ UNCHANGED <<setObjs, usedRef, mu, win, lastDel>>
    /\ UNCHANGED <<collVars, fitVars, polVars, shareVars, valVars, consVars>>

\* f.mu.Lock(); count := 0
GenLock(t) ==
    /\ pc[t] = "genLock"
    /\ CanLock(t)
    /\ mu' = t
    /\ pc' = [pc EXCEPT ![t] = "genDraw"]
    /\ loc' = [loc EXCEPT ![t].before = Used]
    /\ UNCHANGED <<setObjs, usedRef, win, lastDel, lastGen, nCalls>>
    /\ UNCHANGED <<collVars, fitVars, polVars, shareVars, valVars, consVars>>

\* b := make([]byte, f.nBytes); rand.Read(b); ShareID := hex.EncodeToString(b)
GenDraw(t) ==
    /\ pc[t] = "genDraw"
    /\ \E id \in IDs :
          /\ loc' = [loc EXCEPT ![t].cand = id, ![t].draws = @ + 1]
          /\ pc' = [pc EXCEPT ![t] = "genCheck"]
    /\ UNCHANGED <<setObjs, usedRef, mu, win, lastDel, lastGen, nCalls>>
    /\ UNCHANGED <<collVars, fitVars, polVars, shareVars, valVars, consVars>>

\* rand.Read returns an error: return "", fmt.Errorf("failed to generate random bytes")
GenRngFails(t) ==
    /\ pc[t] = "genDraw"
    /\ loc' = [loc EXCEPT ![t].res = "RngFailure"]
    /\ pc' = [pc EXCEPT ![t] = "genUnlock"]
    /\ UNCHANGED <<setObjs, usedRef, mu, win, lastDel, lastGen, nCalls>>
    /\ UNCHANGED <<collVars, fitVars, polVars, shareVars, valVars, consVars>>

\* the test of f.usedIDs, and on a used candidate count += 1 and the bound
GenCheck(t) ==
    /\ pc[t] = "genCheck"
    /\ LET key == MakeSharedDeviceID(loc[t].dev, loc[t].cand) IN
       IF IsUnused(Used, key)
       THEN /\ pc' = [pc EXCEPT ![t] = "genInsert"]
            /\ UNCHANGED loc
       ELSE IF TriedOut(loc[t].count + 1, loc[t].maxTry)
            THEN /\ loc' = [loc EXCEPT ![t].count = @ + 1, ![t].res = "Exhausted"]
                 /\ pc' = [pc EXCEPT ![t] = "genUnlock"]
            ELSE /\ loc' = [loc EXCEPT ![t].count = @ + 1]
                 /\ pc' = [pc EXCEPT ![t] = "genDraw"]
    /\ UNCHANGED <<setObjs, usedRef, mu, win, lastDel, lastGen, nCalls>>
    /\ UNCHANGED <<collVars, fitVars, polVars, shareVars, valVars, consVars>>

\* f.usedIDs[sharedDeviceID] = struct{}{}; return ShareID, nil
GenInsert(t) ==
    /\ pc[t] = "genInsert"
    /\ LET key == MakeSharedDeviceID(loc[t].dev, loc[t].cand) IN
       /\ setObjs' = [setObjs EXCEPT ![usedRef] = @ \cup {key}]
       /\ win' = [win EXCEPT !.issued = @ \cup {key},
                             !.n = @ + 1,
                             !.stale = @ \/ key \in Used]
       /\ lastGen' = [lastGen EXCEPT ![t].id = loc[t].cand, ![t].stale = FALSE]
    /\ loc' = [loc EXCEPT ![t].res = "id"]
    /\ pc' = [pc EXCEPT ![t] = "genUnlock"]
    /\ UNCHANGED <<usedRef, mu, lastDel, nCalls>>
    /\ UNCHANGED <<collVars, fitVars, polVars, shareVars, valVars, consVars>>

\* thread t calls f.DeleteShareID(dev, id)
DelCall(t, dev, id) ==
    /\ pc[t] = "idle"
    /\ nCalls < MaxCalls
    /\ nCalls' = nCalls + 1
    /\ pc' = [pc EXCEPT ![t] = "delLock"]
    /\ loc' = [loc EXCEPT ![t] = [NoCall EXCEPT !.op = "del", !.dev = dev, !.id = id]]
    /\ UNCHANGED <<setObjs, usedRef, mu, win, lastDel, lastGen>>
    /\ UNCHANGED <<collVars, fitVars, polVars, shareVars, valVars, consVars>>

\* f.mu.Lock()
DelLock(t) ==
    /\ pc[t] = "delLock"
    /\ CanLock(t)
    /\ mu' = t
    /\ pc' = [pc EXCEPT ![t] = "delBody"]
    /\ UNCHANGED <<setObjs, usedRef, loc, win, lastDel, lastGen, nCalls>>
    /\ UNCHANGED <<collVars, fitVars, polVars, shareVars, valVars, consVars>>

\* sharedDeviceID := MakeSharedDeviceID(deviceID, shareID) and the conditional delete
DelBody(t) ==
    /\ pc[t] = "delBody"
    /\ LET key == MakeSharedDeviceID(loc[t].dev, loc[t].id)
           S   == DeleteKey(Used, key)
       IN /\ setObjs' = [setObjs EXCEPT ![usedRef] = S]
          /\ lastDel' = [done |-> TRUE, key |-> key, before |-> Used, after |-> S]
          /\ win' = NewWin(S)
    /\ lastGen' = [u \in Threads |-> [lastGen[u] EXCEPT !.stale = TRUE]]
    /\ pc' = [pc EXCEPT ![t] = "delUnlock"]
    /\ UNCHANGED <<usedRef, mu, loc, nCalls>>
    /\ UNCHANGED <<collVars, fitVars, polVars, shareVars, valVars, consVars>>

\* thread t calls f.SetUsedShareIDs(usedIDs): nil (0) or the caller's set object
SetCall(t, ref) ==
    /\ pc[t] = "idle"
    /\ nCalls < MaxCalls
    /\ nCalls' = nCalls + 1
    /\ pc' = [pc EXCEPT ![t] = "setLock"]
    /\ loc' = [loc EXCEPT ![t] = [NoCall EXCEPT !.op = "set", !.ref = ref]]
    /\ UNCHANGED <<setObjs, usedRef, mu, win, lastDel, lastGen>>
    /\ UNCHANGED <<collVars, fitVars, polVars, shareVars, valVars, consVars>>

\* f.mu.Lock()
SetLock(t) ==
    /\ pc[t] = "setLock"
    /\ CanLock(t)
    /\ mu' = t
    /\ pc' = [pc EXCEPT ![t] = "setBody"]
    /\ loc' = [loc EXCEPT ![t].before = Used]
    /\ UNCHANGED <<setObjs, usedRef, win, lastDel, lastGen, nCalls>>
    /\ UNCHANGED <<collVars, fitVars, polVars, shareVars, valVars, consVars>>

\* a SetUsedShareIDs that ignores every argument
SetBodyIgnores(t) ==
    /\ pc[t] = "setBody"
    /\ pc' = [pc EXCEPT ![t] = "setUnlock"]
    /\ UNCHANGED <<setObjs, usedRef, mu, loc, win, lastDel, lastGen, nCalls>>
    /\ UNCHANGED <<collVars, fitVars, polVars, shareVars, valVars, consVars>>

\* if usedIDs != nil { f.usedIDs = usedIDs }
SetBody(t) ==
    /\ pc[t] = "setBody"
    /\ IF loc[t].ref # 0
       THEN /\ usedRef' = loc[t].ref
            /\ win' = [win EXCEPT !.replaced = TRUE]
            /\ lastGen' = [u \in Threads |-> [lastGen[u] EXCEPT !.stale = TRUE]]
       ELSE UNCHANGED <<usedRef, win, lastGen>>
    /\ pc' = [pc EXCEPT ![t] = "setUnlock"]
    /\ UNCHANGED <<setObjs, mu, loc, lastDel, nCalls>>
    /\ UNCHANGED <<collVars, fitVars, polVars, shareVars, valVars, consVars>>

\* defer f.mu.Unlock(), and the call returns
Unlock(t) ==
    /\ pc[t] \in {"genUnlock", "delUnlock", "setUnlock"}
    /\ mu' = "free"
    /\ pc' = [pc EXCEPT ![t] = "idle"]
    /\ loc' = [loc EXCEPT ![t] = NoCall]
    /\ UNCHANGED <<setObjs, usedRef, win, lastDel, lastGen, nCalls>>
    /\ UNCHANGED <<collVars, fitVars, polVars, shareVars, valVars, consVars>>

FactNext ==
    \E t \in Threads :
        \/ \E dev \in Devices, maxTry \in 0..MaxTry : GenCall(t, dev, maxTry)
        \/ GenLock(t)
        \/ GenDraw(t)
        \/ GenRngFails(t)
        \/ GenCheck(t)
        \/ GenInsert(t)
        \/ \E dev \in Devices, id \in IDs : DelCall(t, dev, id)
        \/ DelLock(t)
        \/ DelBody(t)
        \/ \E ref \in {0, 2} : SetCall(t, ref)
        \/ SetLock(t)
        \/ SetBody(t)
        \/ Unlock(t)

(***************************************************************************)
(* CmpRequestOverCapacity (experimental package).  A DeviceCapacity is     *)
(* [Value, SharingPolicy]; SharingPolicy is <<>> (nil) or <<policy>>, a    *)
(* policy is [Default, ValidRange, ValidValues] with Default an address    *)
(* (a Quantity pointer, 0 is nil), ValidRange <<>> or <<[Min, Max, Step]>> *)
(* (Max and Step again <<>> or <<q>>) and ValidValues <<>> (a nil slice)   *)
(* or <<the slice>>.                                                       *)
(***************************************************************************)
\* width of the int64 arithmetic on Value(), scaled down
IntBits == 4

\* an int64 result: wraps around at the width
Int64(x) == ((x + 2^(IntBits - 1)) % 2^IntBits) - 2^(IntBits - 1)

Abs(x) == IF x < 0 THEN -x ELSE x

\* Go's / on integers truncates toward zero
GoDiv(a, b) ==
    LET q == Abs(a) \div Abs(b) IN IF (a < 0) # (b < 0) THEN -q ELSE q

\* Go's %: the remainder of the truncated division
GoMod(a, b) == a - b * GoDiv(a, b)

\* q.Value() of a quantity that fits in an int64
Value(q) == q.v

\* draapi.Convert_api_DeviceCapacity_To_v1beta1_DeviceCapacity: the two
\* types have the same fields; the policy pointer is carried over
Convert_api_DeviceCapacity_To_v1beta1_DeviceCapacity(cap) == cap

\* a check that finds every requested name
NoNonExistCapacity(deviceRequest, caps) == FALSE

\* func requestsContainNonExistCapacity(deviceRequestCapacity, capacity) bool
requestsContainNonExistCapacity(deviceRequest, caps) ==
    IF deviceRequest = <<>> THEN FALSE
    ELSE \E name \in DOMAIN deviceRequest[1] : name \notin DOMAIN caps

\* func isConsumableCapacity(cap resourceapi.DeviceCapacity) bool
isConsumableCapacity(cap) == cap.SharingPolicy # <<>>

\* ptr.To(consumable.Default.DeepCopy()); Default is dereferenced, nil or not
DefaultCopy(m, consumable) ==
    IF consumable.Default = 0
    THEN [mem |-> m, ptr |-> 0, panic |-> TRUE]
    ELSE LET a == Alloc(m, m[consumable.Default]) IN
         [mem |-> a.mem, ptr |-> a.addr, panic |-> FALSE]

\* func calculateConsumedCapacity(requestedVal *resource.Quantity, consumable) *resource.Quantity
\* requestedVal is an address (0 is nil); the result is the returned pointer
calculateConsumedCapacity(m, requestedVal, consumable) ==
    IF consumable.ValidRange # <<>>
    THEN LET range == consumable.ValidRange[1] IN
         IF requestedVal = 0 THEN DefaultCopy(m, consumable)
         ELSE IF QCmp(m[requestedVal], range.Min) < 0
         THEN LET a == Alloc(m, range.Min) IN
              [mem |-> a.mem, ptr |-> a.addr, panic |-> FALSE]
         ELSE IF range.Step # <<>>
         THEN LET requestedInt64 == Value(m[requestedVal])
                  step  == Value(range.Step[1])
                  min   == Value(range.Min)
                  added == Int64(requestedInt64 - min)
              IN IF step = 0 THEN [mem |-> m, ptr |-> 0, panic |-> TRUE]
                 ELSE LET n0  == GoDiv(added, step)
                          mod == GoMod(added, step)
                          n   == IF mod # 0 THEN Int64(n0 + 1) ELSE n0
                          val == Int64(min + Int64(step * n))
                          a   == Alloc(m, Q(val))
                      IN [mem |-> a.mem, ptr |-> a.addr, panic |-> FALSE]
         ELSE [mem |-> m, ptr |-> requestedVal, panic |-> FALSE]
    ELSE IF consumable.ValidValues # <<>>
    THEN IF requestedVal = 0 THEN DefaultCopy(m, consumable)
         ELSE [mem |-> m, ptr |-> requestedVal, panic |-> FALSE]
    ELSE [mem |-> m, ptr |-> requestedVal, panic |-> FALSE]

\* a check that lets every quantity pass
NeverViolates(m, requestedVal, policy) == [violates |-> FALSE, panic |-> FALSE]

\* func violatesPolicy(requestedVal resource.Quantity, policy *CapacitySharingPolicy) bool
violatesPolicy(m, requestedVal, policy) ==
    IF policy = <<>> THEN [violates |-> FALSE, panic |-> FALSE]
    ELSE IF policy[1].Default = 0 THEN [violates |-> FALSE, panic |-> FALSE]
    ELSE IF requestedVal = m[policy[1].Default] THEN [violates |-> FALSE, panic |-> FALSE]
    ELSE IF policy[1].ValidRange # <<>>
    THEN LET range == policy[1].ValidRange[1] IN
         IF range.Max # <<>> /\ QCmp(requestedVal, range.Max[1]) > 0
         THEN [violates |-> TRUE, panic |-> FALSE]
         ELSE IF range.Step # <<>>
         THEN LET requestedInt64 == Value(requestedVal)
                  step  == Value(range.Step[1])
                  min   == Value(range.Min)
                  added == Int64(requestedInt64 - min)
              IN IF step = 0 THEN [violates |-> FALSE, panic |-> TRUE]
                 ELSE [violates |-> GoMod(added, step) # 0, panic |-> FALSE]
         ELSE [violates |-> FALSE, panic |-> FALSE]
    ELSE LET validValues == IF policy[1].ValidValues = <<>> THEN <<>>
                            ELSE policy[1].ValidValues[1]
         IN [violates |-> ~\E i \in 1..Len(validValues) :
                               QCmp(requestedVal, validValues[i]) = 0,
             panic |-> FALSE]

\* the body of `for name, cap := range capacity`, the map visited in order
RECURSIVE CmpRange(_, _, _, _, _, _, _)
CmpRange(m, clone, deviceRequest, caps, allocating, order, i) ==
    IF i > Len(order) THEN [mem |-> m, res |-> "Fit", cc |-> clone]
    ELSE
    LET name == order[i]
        cap  == caps[name]
        convertedCapacity == Convert_api_DeviceCapacity_To_v1beta1_DeviceCapacity(cap)
        requestedFound == deviceRequest # <<>> /\ name \in DOMAIN deviceRequest[1]
        \* requestedVal is a copy of the map's entry; requestedValPtr its address
        req  == IF requestedFound THEN Alloc(m, deviceRequest[1][name])
                ELSE [mem |-> m, addr |-> 0]
    IN
    IF isConsumableCapacity(convertedCapacity)
    THEN LET c == calculateConsumedCapacity(req.mem, req.addr,
                                            convertedCapacity.SharingPolicy[1]) IN
         IF c.panic \/ c.ptr = 0 THEN [mem |-> c.mem, res |-> "Panic", cc |-> clone]
         ELSE
         LET v == violatesPolicy(c.mem, c.mem[c.ptr], convertedCapacity.SharingPolicy) IN
         IF v.panic THEN [mem |-> c.mem, res |-> "Panic", cc |-> clone]
         ELSE IF v.violates THEN [mem |-> c.mem, res |-> "NoFit", cc |-> clone]
         ELSE
         LET allocatedFound == name \in DOMAIN clone
             clone1 == IF allocatedFound THEN clone ELSE MapPut(clone, name, c.ptr)
             m1 == IF allocatedFound
                   THEN Store(c.mem, clone[name], QAdd(c.mem[clone[name]], c.mem[c.ptr]))
                   ELSE c.mem
             allocatingFound == allocating # <<>> /\ name \in DOMAIN allocating[1]
             m2 == IF allocatingFound
                   THEN Store(m1, clone1[name],
                              QAdd(m1[clone1[name]], m1[allocating[1][name]]))
                   ELSE m1
         IN IF QCmp(m2[clone1[name]], cap.Value) > 0
            THEN [mem |-> m2, res |-> "NoFit", cc |-> clone1]
            ELSE CmpRange(m2, clone1, deviceRequest, caps, allocating, order, i + 1)
    ELSE IF req.addr # 0 /\ QCmp(req.mem[req.addr], cap.Value) > 0
         THEN [mem |-> req.mem, res |-> "NoFit", cc |-> clone]
         ELSE CmpRange(req.mem, clone, deviceRequest, caps, allocating, order, i + 1)

\* func CmpRequestOverCapacity(currentConsumedCapacity, deviceRequestCapacity,
\*     allowMultipleAllocations, capacity, allocatingCapacity) (bool, error)
\* res: "Fit" (true, nil), "NoFit" (false, nil), "UnknownCapacity" (false, err)
\* or "Panic"; mem: the heap when the call ends; cc: the local clone then
CmpRequestOverCapacity(m, current, deviceRequest, allowMultiple, caps, allocating, order) ==
    IF requestsContainNonExistCapacity(deviceRequest, caps)
    THEN [mem |-> m, res |-> "UnknownCapacity", cc |-> EmptyMap]
    ELSE LET c == Clone(m, current) IN
         CmpRange(c.mem, c.cc, deviceRequest, caps, allocating, order, 1)

\* the body of `for name, cap := range consumableCapacity` of
\* GetConsumedCapacityFromRequest; `*capacity` reads through the pointer
\* calculateConsumedCapacity returned, nil or not
RECURSIVE GetRange(_, _, _, _, _, _)
GetRange(m, consumedCapacity, requestedCapacity, consumableCapacity, order, i) ==
    IF i > Len(order) THEN [mem |-> m, res |-> "Returned", out |-> consumedCapacity]
    ELSE
    LET name == order[i]
        cap  == consumableCapacity[name]
        requestedFound == requestedCapacity # <<>> /\ name \in DOMAIN requestedCapacity[1]
        req  == IF requestedFound THEN Alloc(m, requestedCapacity[1][name])
                ELSE [mem |-> m, addr |-> 0]
    IN
    IF isConsumableCapacity(cap)
    THEN LET c == calculateConsumedCapacity(req.mem, req.addr, cap.SharingPolicy[1]) IN
         IF c.panic \/ c.ptr = 0 THEN [mem |-> c.mem, res |-> "Panic", out |-> EmptyMap]
         ELSE GetRange(c.mem, MapPut(consumedCapacity, name, c.mem[c.ptr]),
                       requestedCapacity, consumableCapacity, order, i + 1)
    ELSE GetRange(m, consumedCapacity, requestedCapacity, consumableCapacity, order, i + 1)

\* func GetConsumedCapacityFromRequest(requestedCapacity, consumableCapacity)
\*     map[resourceapi.QualifiedName]resource.Quantity
\* res: "Returned" with the map in out, or "Panic"
GetConsumedCapacityFromRequest(m, requestedCapacity, consumableCapacity, order) ==
    GetRange(m, EmptyMap, requestedCapacity, consumableCapacity, order, 1)

(***************************************************************************)
(* CmpRequestOverCapacity driven by a caller.  The caller's values:        *)
(* quantities 0..7 in BinarySI, a device whose capacities hold 4.          *)
(***************************************************************************)
RangeValues ==
    {[Min |-> Q(2), Max |-> mx, Step |-> st] :
        mx \in {<<>>, <<Q(4)>>}, st \in {<<>>, <<Q(2)>>}}

\* CapacitySharingPolicy values, Default given by value: <<>> or <<q>>
PolicyValues ==
    {[Default |-> d, ValidRange |-> r, ValidValues |-> v] :
        d \in {<<>>, <<Q(2)>>},
        r \in {<<>>} \cup {<<x>> : x \in RangeValues},
        v \in {<<>>, << <<Q(2), Q(4)>> >>}}

\* declarations of c0: no policy, or any of the policies
Cap0Values ==
    {[Value |-> Q(4), SharingPolicy |-> p] :
        p \in {<<>>} \cup {<<x>> : x \in PolicyValues}}

\* declarations of c1: no policy, or a range without max and step
Cap1Values ==
    {[Value |-> Q(4), SharingPolicy |-> <<>>],
     [Value |-> Q(4),
      SharingPolicy |-> <<[Default |-> <<Q(2)>>,
                           ValidRange |-> <<[Min |-> Q(2), Max |-> <<>>, Step |-> <<>>]>>,
                           ValidValues |-> <<>>]>>]}

\* the device's capacity map: c0 always, c1 sometimes
CapacityValues ==
    {[n \in {"c0"} |-> c0] : c0 \in Cap0Values}
    \cup {[n \in Names |-> IF n = "c0" THEN c0 ELSE c1] :
             c0 \in Cap0Values, c1 \in Cap1Values}

\* maps from some of the names, name n drawing its quantity from vals[n]
MapsOver(vals) ==
    UNION {{f \in [S -> UNION {vals[n] : n \in S}] : \A n \in S : f[n] \in vals[n]} :
              S \in SUBSET Names}

RequestValues ==
    {<<>>} \cup {<<f>> : f \in MapsOver([n \in Names |->
                    IF n = "c0" THEN {Q(1), Q(2), Q(3), Q(7)} ELSE {Q(1), Q(5)}])}

CurrentValues ==
    MapsOver([n \in Names |-> IF n = "c0" THEN {Q(1), Q(2)} ELSE {Q(1)}])

AllocatingValues ==
    {<<>>, <<[n \in {"c0"} |-> Q(1)]>>, <<[n \in {"c1"} |-> Q(1)]>>}

AllowValues == {<<>>, <<TRUE>>, <<FALSE>>}

\* the policy with its Default put in a heap cell
RECURSIVE BuildCapacity(_, _, _, _)
BuildCapacity(m, cv, i, acc) ==
    IF i > Len(NameSeq) THEN [mem |-> m, caps |-> acc]
    ELSE LET n == NameSeq[i] IN
         IF n \notin DOMAIN cv THEN BuildCapacity(m, cv, i + 1, acc)
         ELSE IF cv[n].SharingPolicy = <<>>
         THEN BuildCapacity(m, cv, i + 1, MapPut(acc, n, cv[n]))
         ELSE LET p == cv[n].SharingPolicy[1]
                  a == IF p.Default = <<>> THEN [mem |-> m, addr |-> 0]
                       ELSE Alloc(m, p.Default[1])
              IN BuildCapacity(a.mem, cv, i + 1,
                     MapPut(acc, n, [cv[n] EXCEPT !.SharingPolicy =
                                        <<[p EXCEPT !.Default = a.addr]>>]))

\* the capacity map seen through the Default pointers
CapacityVal(m, caps) ==
    [n \in DOMAIN caps |->
        IF caps[n].SharingPolicy = <<>> THEN caps[n]
        ELSE LET p == caps[n].SharingPolicy[1] IN
             [caps[n] EXCEPT !.SharingPolicy =
                 <<[p EXCEPT !.Default = IF p.Default = 0 THEN <<>>
                                         ELSE <<m[p.Default]>>]>>]]

\* every order in which range can visit the keys of a map
Orders(S) ==
    {o \in [1..Cardinality(S) -> S] : {o[i] : i \in 1..Cardinality(S)} = S}

\* no call on other committed consumption yet
NoLess == [cur |-> EmptyMap, res |-> "none"]

\* committed consumption that is nowhere above cc, a missing name counting
\* as zero
LessValues(cc) ==
    {less \in CurrentValues :
        \A n \in DOMAIN less : n \in DOMAIN cc /\ less[n].v <= cc[n].v}

\* GetConsumedCapacityFromRequest not called yet
NoGot == [res |-> "none", out |-> EmptyMap]

FitInit ==
    /\ \E cur \in CurrentValues, req \in RequestValues, allow \in AllowValues,
          cv \in CapacityValues, alloc \in AllocatingValues :
          LET a == NewCapFrom(<<>>, cur, 1, EmptyMap)
              b == IF alloc = <<>> THEN [mem |-> a.mem, cc |-> EmptyMap]
                   ELSE NewCapFrom(a.mem, alloc[1], 1, EmptyMap)
              c == BuildCapacity(b.mem, cv, 1, EmptyMap)
          IN /\ fmem = c.mem
             /\ currentConsumedCapacity = a.cc
             /\ deviceRequestCapacity = req
             /\ allowMultipleAllocations = allow
             /\ capacity = c.caps
             /\ allocatingCapacity = IF alloc = <<>> THEN <<>> ELSE <<b.cc>>
             /\ fitIn = [cur |-> cur, req |-> req, allow |-> allow,
                         caps |-> cv, alloc |-> alloc]
    /\ fitRes = "none"
    /\ fitOrder = <<>>
    /\ fitPrev = "none"
    /\ fitLess = NoLess
    /\ fitClone = EmptyMap
    /\ fitGot = NoGot
    /\ nFit = 0

\* a caller calls CmpRequestOverCapacity; range visits the capacity map in order
DoCmp(order) ==
    /\ nFit < MaxFit
    /\ LET r == CmpRequestOverCapacity(fmem, currentConsumedCapacity,
                    deviceRequestCapacity, allowMultipleAllocations, capacity,
                    allocatingCapacity, order)
       IN /\ fmem' = SubSeq(r.mem, 1, Len(fmem))
          /\ fitRes' = r.res
          /\ fitClone' = IF r.res = "Fit" THEN CapVal(r.mem, r.cc) ELSE EmptyMap
    /\ fitOrder' = order
    /\ fitPrev' = fitRes
    /\ nFit' = nFit + 1
    /\ UNCHANGED <<currentConsumedCapacity, deviceRequestCapacity,
                   allowMultipleAllocations, capacity, allocatingCapacity, fitIn, fitLess, fitGot>>
    /\ UNCHANGED <<collVars, factVars, polVars, shareVars, valVars, consVars>>

\* after a call, the caller calls CmpRequestOverCapacity once more for the
\* same request and device, on committed consumption that is nowhere above
\* the current one and with nothing in flight
DoCmpLess(order, less) ==
    /\ 0 < nFit
    /\ nFit < MaxFit
    /\ fitLess = NoLess
    /\ fitGot = NoGot
    /\ LET a == NewCapFrom(fmem, less, 1, EmptyMap)
           r == CmpRequestOverCapacity(a.mem, a.cc, deviceRequestCapacity,
                    allowMultipleAllocations, capacity, <<>>, order)
       IN /\ fmem' = SubSeq(r.mem, 1, Len(fmem))
          /\ fitLess' = [cur |-> less, res |-> r.res]
    /\ nFit' = nFit + 1
    /\ UNCHANGED <<currentConsumedCapacity, deviceRequestCapacity,
                   allowMultipleAllocations, capacity, allocatingCapacity, fitIn,
                   fitRes, fitOrder, fitPrev, fitClone, fitGot>>
    /\ UNCHANGED <<collVars, factVars, polVars, shareVars, valVars, consVars>>

\* after a call of CmpRequestOverCapacity, the caller asks
\* GetConsumedCapacityFromRequest what the same request consumes of the
\* same device, to commit it
DoGetConsumed(order) ==
    /\ 0 < nFit
    /\ nFit < MaxFit
    /\ fitGot = NoGot
    /\ fitLess = NoLess
    /\ LET r == GetConsumedCapacityFromRequest(fmem, deviceRequestCapacity,
                    capacity, order)
       IN /\ fmem' = SubSeq(r.mem, 1, Len(fmem))
          /\ fitGot' = [res |-> r.res, out |-> r.out]
    /\ nFit' = nFit + 1
    /\ UNCHANGED <<currentConsumedCapacity, deviceRequestCapacity,
                   allowMultipleAllocations, capacity, allocatingCapacity, fitIn,
                   fitRes, fitOrder, fitPrev, fitLess, fitClone>>
    /\ UNCHANGED <<collVars, factVars, polVars, shareVars, valVars, consVars>>

FitNext ==
    \E order \in Orders(DOMAIN capacity) :
        \/ DoCmp(order)
        \/ \E less \in LessValues(fitIn.cur) : DoCmpLess(order, less)
        \/ DoGetConsumed(order)

(***************************************************************************)
(* calculateConsumedCapacity and violatesPolicy called on their own, the   *)
(* way CmpRequestOverCapacity (lines 53-54) and the package's tests call   *)
(* them.                                                                   *)
(***************************************************************************)
\* quantities of a caller: 0..7 in BinarySI, 2 and 3 also in DecimalSI
PolQuantities == {Q(n) : n \in 0..7} \cup {QDec(2), QDec(3)}

PolRangeValues ==
    {[Min |-> mn, Max |-> mx, Step |-> st] :
        mn \in {Q(1), Q(2)},
        mx \in {<<>>, <<Q(4)>>, <<Q(5)>>},
        st \in {<<>>, <<Q(2)>>, <<Q(3)>>, <<Q(5)>>}}

\* CapacitySharingPolicy values, Default given by value: <<>> or <<q>>
PolPolicyValues ==
    {[Default |-> d, ValidRange |-> r, ValidValues |-> v] :
        d \in {<<>>, <<Q(1)>>, <<Q(2)>>, <<QDec(2)>>, <<Q(4)>>},
        r \in {<<>>} \cup {<<x>> : x \in PolRangeValues},
        v \in {<<>>, << <<Q(1), Q(3)>> >>, << <<Q(2), Q(4)>> >>}}

\* the request pointer: nil, or the address of a quantity
PolRequestValues == {<<>>} \cup {<<q>> : q \in PolQuantities}

\* what a call of calculateConsumedCapacity gave: the pointer and its target
PolResult(r) ==
    IF r.panic THEN [st |-> "panic", ptr |-> 0, val |-> <<>>]
    ELSE [st |-> "ok", ptr |-> r.ptr,
          val |-> IF r.ptr = 0 THEN <<>> ELSE <<r.mem[r.ptr]>>]

NoResult == [st |-> "none", ptr |-> 0, val |-> <<>>]

\* what a call of violatesPolicy gave
PolVerdict(v) ==
    IF v.panic THEN "panic" ELSE IF v.violates THEN "true" ELSE "false"

PolInit ==
    /\ \E req \in PolRequestValues,
          pol \in {<<>>} \cup {<<x>> : x \in PolPolicyValues} :
          LET a == IF req = <<>> THEN [mem |-> <<>>, addr |-> 0]
                   ELSE Alloc(<<>>, req[1])
              b == IF pol = <<>> \/ pol[1].Default = <<>>
                   THEN [mem |-> a.mem, addr |-> 0]
                   ELSE Alloc(a.mem, pol[1].Default[1])
          IN /\ polMem = b.mem
             /\ polReq = a.addr
             /\ polPolicy = IF pol = <<>> THEN <<>>
                            ELSE <<[pol[1] EXCEPT !.Default = b.addr]>>
             /\ polIn = [req |-> req, policy |-> pol]
    /\ polOut = NoResult
    /\ polAgain = NoResult
    /\ polArg = <<>>
    /\ polViol = "none"

\* consumedCapacity := calculateConsumedCapacity(requestedValPtr, *SharingPolicy)
\* behind the isConsumableCapacity gate
DoCalculate ==
    /\ polPolicy # <<>>
    /\ polOut.st = "none"
    /\ LET r == calculateConsumedCapacity(polMem, polReq, polPolicy[1]) IN
          /\ polMem' = r.mem
          /\ polOut' = PolResult(r)
    /\ UNCHANGED <<polPolicy, polReq, polIn, polAgain, polArg, polViol>>
    /\ UNCHANGED <<collVars, factVars, fitVars, shareVars, valVars, consVars>>

\* calculateConsumedCapacity called on the pointer it returned
DoCalculateAgain ==
    /\ polOut.st = "ok"
    /\ polAgain.st = "none"
    /\ LET r == calculateConsumedCapacity(polMem, polOut.ptr, polPolicy[1]) IN
          /\ polMem' = r.mem
          /\ polAgain' = PolResult(r)
    /\ UNCHANGED <<polPolicy, polReq, polIn, polOut, polArg, polViol>>
    /\ UNCHANGED <<collVars, factVars, fitVars, shareVars, valVars, consVars>>

\* violatesPolicy(q, policy) on a quantity of the caller
DoViolates(q) ==
    /\ polArg' = <<q>>
    /\ polViol' = PolVerdict(violatesPolicy(polMem, q, polPolicy))
    /\ UNCHANGED <<polMem, polPolicy, polReq, polIn, polOut, polAgain>>
    /\ UNCHANGED <<collVars, factVars, fitVars, shareVars, valVars, consVars>>

\* violatesPolicy(*consumedCapacity, SharingPolicy): the result of
\* calculateConsumedCapacity is dereferenced, nil or not
DoViolatesConsumed ==
    /\ polOut.st = "ok"
    /\ polArg' = polOut.val
    /\ polViol' = IF polOut.ptr = 0 THEN "panic"
                  ELSE PolVerdict(violatesPolicy(polMem, polMem[polOut.ptr], polPolicy))
    /\ UNCHANGED <<polMem, polPolicy, polReq, polIn, polOut, polAgain>>
    /\ UNCHANGED <<collVars, factVars, fitVars, shareVars, valVars, consVars>>

PolNext ==
    \/ DoCalculate
    \/ DoCalculateAgain
    \/ \E q \in PolQuantities : DoViolates(q)
    \/ DoViolatesConsumed

(***************************************************************************)
(* The validator of a device capacity declaration.  Its code is not among  *)
(* the sources: the rules are those of the specification (4.1) and the     *)
(* failures those TestValidateDeviceCapacity expects.  A failure is         *)
(* [rule, index], index 0 when the rule is not about one option.           *)
(***************************************************************************)
Failure(rule, index) == [rule |-> rule, index |-> index]

\* a ValidValues branch that does not look at the order of the options
validValuesAnyOrder(V, p) ==
    LET o == p.ValidValues[1] IN
    (IF p.Default = <<>> THEN {Failure("default required", 0)} ELSE {})
    \cup {Failure("option is larger than capacity value", i) :
             i \in {x \in 1..Len(o) : o[x].v > V.v}}
    \cup (IF p.Default # <<>> /\ ~\E x \in 1..Len(o) : o[x].v = p.Default[1].v
          THEN {Failure("default value is not valid", 0)} ELSE {})

\* the failures of the ValidValues branch
validValuesFailures(V, p) ==
    LET o == p.ValidValues[1] IN
    (IF p.Default = <<>> THEN {Failure("default required", 0)} ELSE {})
    \cup (IF Len(o) = 0 THEN {Failure("validValues empty", 0)} ELSE {})
    \cup {Failure("option is larger than capacity value", i) :
             i \in {x \in 1..Len(o) : o[x].v > V.v}}
    \cup {Failure("duplicate", i) :
             i \in {x \in 2..Len(o) : \E y \in 1..(x - 1) : o[y].v = o[x].v}}
    \cup {Failure("values must be sorted in ascending order", i) :
             i \in {x \in 2..Len(o) : o[x].v < o[x - 1].v}}
    \cup (IF p.Default # <<>> /\ ~\E x \in 1..Len(o) : o[x].v = p.Default[1].v
          THEN {Failure("default value is not valid", 0)} ELSE {})

\* a ValidRange branch that stops at the first failure it finds
validRangeFirstFailure(V, p) ==
    IF p.Default = <<>> THEN {Failure("default required", 0)}
    ELSE IF p.ValidRange[1].Min.v > V.v
    THEN {Failure("minimum is larger than capacity value", 0)}
    ELSE IF p.Default[1].v < p.ValidRange[1].Min.v
    THEN {Failure("default is less than minimum", 0)}
    ELSE {}

\* the failures of the ValidRange branch; x is a multiple of step s when
\* x mod |s| = 0, whatever the sign of s
validRangeFailures(V, p) ==
    LET r == p.ValidRange[1]
        m == r.Min.v
        hasD == p.Default # <<>>
        hasM == r.Max # <<>>
        hasS == r.Step # <<>>
    IN
    (IF ~hasD THEN {Failure("default required", 0)} ELSE {})
    \cup (IF m > V.v THEN {Failure("minimum is larger than capacity value", 0)} ELSE {})
    \cup (IF hasM /\ m > r.Max[1].v
          THEN {Failure("minimum is larger than maximum", 0)} ELSE {})
    \cup (IF hasM /\ r.Max[1].v > V.v
          THEN {Failure("maximum is larger than capacity value", 0)} ELSE {})
    \cup (IF hasD /\ p.Default[1].v < m
          THEN {Failure("default is less than minimum", 0)} ELSE {})
    \cup (IF hasD /\ hasM /\ p.Default[1].v > r.Max[1].v
          THEN {Failure("default is more than maximum", 0)} ELSE {})
    \cup (IF hasS /\ ~hasM /\ m + r.Step[1].v > V.v
          THEN {Failure("one step is larger than capacity value", 0)} ELSE {})
    \cup (IF hasS /\ hasM /\ (r.Max[1].v - m) % Abs(r.Step[1].v) # 0
          THEN {Failure("maximum is not a multiple of step from minimum", 0)} ELSE {})
    \cup (IF hasS /\ hasD /\ (p.Default[1].v - m) % Abs(r.Step[1].v) # 0
          THEN {Failure("default is not a multiple of step from minimum", 0)} ELSE {})

\* a validator that checks each variant on its own
validateEachVariant(V, P) ==
    IF P = <<>> THEN {}
    ELSE (IF P[1].ValidValues # <<>> THEN validValuesFailures(V, P[1]) ELSE {})
         \cup (IF P[1].ValidRange # <<>> THEN validRangeFailures(V, P[1]) ELSE {})

\* validateMultiAllocatableDeviceCapacity(capacity, fldPath) field.ErrorList
\* V is the capacity value, P is <<>> or <<policy>> with Default by value;
\* the result is the set of failures, empty when the declaration is valid
validateMultiAllocatableDeviceCapacity(V, P) ==
    IF P = <<>> THEN {}
    ELSE
    LET p == P[1] IN
    IF p.ValidRange # <<>> /\ p.ValidValues # <<>>
    THEN {Failure("exactly one policy can be specified", 0)}
    ELSE IF p.ValidValues # <<>> THEN validValuesFailures(V, p)
    ELSE IF p.ValidRange # <<>> THEN validRangeFailures(V, p)
    ELSE {}

\* the declarations the validator is given: capacity values 3 and 4
ValRangeValues ==
    {[Min |-> mn, Max |-> mx, Step |-> st] :
        mn \in {Q(1), Q(2), Q(5), Q(-8)},
        mx \in {<<>>, <<Q(1)>>, <<Q(4)>>, <<Q(5)>>},
        st \in {<<>>, <<Q(2)>>, <<Q(3)>>, <<Q(-2)>>}}

ValOptionValues ==
    {<<Q(1)>>, <<Q(1), Q(3)>>, <<Q(2), Q(4)>>, <<Q(3), Q(1)>>,
     <<Q(1), Q(1)>>, <<Q(1), QDec(1)>>, <<Q(5)>>}

ValPolicyValues ==
    {[Default |-> d, ValidRange |-> r, ValidValues |-> v] :
        d \in {<<>>, <<Q(1)>>, <<Q(2)>>, <<Q(4)>>},
        r \in {<<>>} \cup {<<x>> : x \in ValRangeValues},
        v \in {<<>>} \cup {<<x>> : x \in ValOptionValues}}

ValCapValues ==
    {[Value |-> V, RequestPolicy |-> P] :
        V \in {Q(3), Q(4)}, P \in {<<>>} \cup {<<p>> : p \in ValPolicyValues}}

NoValidation == [done |-> FALSE, errs |-> {}]

\* the requests made of a device that declares the validated capacity as
\* c0: none, or a quantity 0..5 for c0
ValRequestValues == {<<>>} \cup {<<[n \in {"c0"} |-> Q(k)]>> : k \in 0..5}

\* no request checked yet
NoRun == [done |-> FALSE, req |-> <<>>, res |-> "none", got |-> NoGot]

ValInit ==
    /\ valCap \in ValCapValues
    /\ valOut = NoValidation
    /\ valRun = NoRun

\* the API server validates the declaration
DoValidate ==
    /\ ~valOut.done
    /\ valOut' = [done |-> TRUE,
                  errs |-> validateMultiAllocatableDeviceCapacity(valCap.Value,
                                                                  valCap.RequestPolicy)]
    /\ UNCHANGED <<valCap, valRun>>
    /\ UNCHANGED <<collVars, factVars, fitVars, polVars, shareVars, consVars>>

\* a device publishes the accepted declaration as its capacity c0 and has
\* no committed and no in-flight consumption; the allocator checks a request
\* with CmpRequestOverCapacity and asks GetConsumedCapacityFromRequest for
\* the charge
DoAllocate(req) ==
    /\ valOut.done
    /\ valOut.errs = {}
    /\ ~valRun.done
    /\ LET cv == [n \in {"c0"} |-> [Value |-> valCap.Value,
                                    SharingPolicy |-> valCap.RequestPolicy]]
           b  == BuildCapacity(<<>>, cv, 1, EmptyMap)
           r  == CmpRequestOverCapacity(b.mem, EmptyMap, req, <<>>, b.caps, <<>>, <<"c0">>)
           g  == GetConsumedCapacityFromRequest(b.mem, req, b.caps, <<"c0">>)
       IN valRun' = [done |-> TRUE, req |-> req, res |-> r.res,
                     got |-> [res |-> g.res, out |-> g.out]]
    /\ UNCHANGED <<valCap, valOut>>
    /\ UNCHANGED <<collVars, factVars, fitVars, polVars, shareVars, consVars>>

ValNext ==
    \/ DoValidate
    \/ \E req \in ValRequestValues : DoAllocate(req)

(***************************************************************************)
(* constraint.go: matchAttributeConstraint and distinctAttributeConstraint.*)
(* A DeviceAttribute is [StringValue, IntValue, BoolValue, VersionValue],  *)
(* each field a pointer (0 is nil) to a cell of AttrMem, which holds the   *)
(* value as text.  A QualifiedName is <<domain, id>>, the domain "" when   *)
(* the name has no slash.                                                  *)
(***************************************************************************)
AttrMem == <<"x", "x", "1", "1", "x">>

NilAttr == [StringValue |-> 0, IntValue |-> 0, BoolValue |-> 0, VersionValue |-> 0]

\* the devices of the pool: g1 and g2 hold the string "x" (g2 under the
\* fully qualified name), g3 the string "1", g4 the int 1, g5 is a device of
\* another driver
ConsDevice(g) ==
    CASE g = "g1" -> [Driver |-> "drv", Attributes |->
                         [k \in {<<"", "attr">>} |-> [NilAttr EXCEPT !.StringValue = 1]]]
      [] g = "g2" -> [Driver |-> "drv", Attributes |->
                         [k \in {<<"drv", "attr">>} |-> [NilAttr EXCEPT !.StringValue = 2]]]
      [] g = "g3" -> [Driver |-> "drv", Attributes |->
                         [k \in {<<"", "attr">>} |-> [NilAttr EXCEPT !.StringValue = 3]]]
      [] g = "g4" -> [Driver |-> "drv", Attributes |->
                         [k \in {<<"", "attr">>} |-> [NilAttr EXCEPT !.IntValue = 4]]]
      [] g = "g5" -> [Driver |-> "other", Attributes |->
                         [k \in {<<"", "attr">>} |-> [NilAttr EXCEPT !.StringValue = 5]]]

ConsDevices == {"g1", "g2", "g3", "g4", "g5"}

ConsRequests == {"r1", "r2"}

\* the attribute both constraints are about
AttributeName == [domain |-> "drv", id |-> "attr"]

\* func lookupAttribute(device, deviceID, attributeName) *draapi.DeviceAttribute
\* <<>> is nil, <<a>> a pointer to a copy of the attribute
lookupAttribute(device, deviceID, attributeName) ==
    IF <<attributeName.domain, attributeName.id>> \in DOMAIN device.Attributes
    THEN <<device.Attributes[<<attributeName.domain, attributeName.id>>]>>
    ELSE IF attributeName.domain = "" THEN <<>>
    ELSE IF attributeName.domain # deviceID.Driver THEN <<>>
    ELSE IF <<"", attributeName.id>> \in DOMAIN device.Attributes
    THEN <<device.Attributes[<<"", attributeName.id>>]>>
    ELSE <<>>

\* a comparison that takes any two attributes for equal
AnyAttribute(attribute, tracked) == TRUE

\* the switch of matchAttributeConstraint.add: TRUE when no case returns false
SameAttribute(attribute, tracked) ==
    IF attribute.StringValue # 0
    THEN ~(tracked.StringValue = 0
           \/ AttrMem[attribute.StringValue] # AttrMem[tracked.StringValue])
    ELSE IF attribute.IntValue # 0
    THEN ~(tracked.IntValue = 0
           \/ AttrMem[attribute.IntValue] # AttrMem[tracked.IntValue])
    ELSE IF attribute.BoolValue # 0
    THEN ~(tracked.BoolValue = 0
           \/ AttrMem[attribute.BoolValue] # AttrMem[tracked.BoolValue])
    ELSE IF attribute.VersionValue # 0
    THEN ~(tracked.VersionValue = 0
           \/ AttrMem[attribute.VersionValue] # AttrMem[tracked.VersionValue])
    ELSE FALSE

\* func (m *matchAttributeConstraint) add(requestName, device, deviceID) bool
matchAttributeConstraintAdd(m, requestName, device, deviceID) ==
    IF Cardinality(m.requestNames) > 0 /\ requestName \notin m.requestNames
    THEN [m |-> m, ret |-> TRUE]
    ELSE LET attribute == lookupAttribute(device, deviceID, m.attributeName) IN
         IF attribute = <<>> THEN [m |-> m, ret |-> FALSE]
         ELSE IF m.numDevices = 0
         THEN [m |-> [m EXCEPT !.attribute = attribute, !.numDevices = 1], ret |-> TRUE]
         ELSE IF ~SameAttribute(attribute[1], m.attribute[1])
         THEN [m |-> m, ret |-> FALSE]
         ELSE [m |-> [m EXCEPT !.numDevices = @ + 1], ret |-> TRUE]

\* func (m *matchAttributeConstraint) remove(requestName, device, deviceID)
matchAttributeConstraintRemove(m, requestName, device, deviceID) ==
    IF Cardinality(m.requestNames) > 0 /\ requestName \notin m.requestNames
    THEN m
    ELSE [m EXCEPT !.numDevices = @ - 1]

\* one round of the loop of distinctAttribute: TRUE when the round returns
\* false; the values are compared as the code compares them, pointer with
\* pointer
FoundDuplicate(attribute, attr) ==
    IF attribute.StringValue # 0
    THEN attr.StringValue # 0 /\ attribute.StringValue = attr.StringValue
    ELSE IF attribute.IntValue # 0
    THEN attr.IntValue # 0 /\ attribute.IntValue = attr.IntValue
    ELSE IF attribute.BoolValue # 0
    THEN attr.BoolValue # 0 /\ attribute.BoolValue = attr.BoolValue
    ELSE IF attribute.VersionValue # 0
    THEN attr.VersionValue # 0 /\ attribute.VersionValue = attr.VersionValue
    ELSE TRUE

\* func (m *distinctAttributeConstraint) distinctAttribute(attribute) bool
distinctAttribute(m, attribute) ==
    ~\E r \in DOMAIN m.attributes : FoundDuplicate(attribute, m.attributes[r])

\* func (m *distinctAttributeConstraint) add(requestName, device, deviceID) bool
\* distinct: what distinctAttribute returned, "none" when it was not called;
\* the code logs a false and goes on
distinctAttributeConstraintAdd(m, requestName, device, deviceID) ==
    IF Cardinality(m.requestNames) > 0 /\ requestName \notin m.requestNames
    THEN [m |-> m, ret |-> TRUE, distinct |-> "none"]
    ELSE LET attribute == lookupAttribute(device, deviceID, m.attributeName) IN
         IF attribute = <<>> THEN [m |-> m, ret |-> FALSE, distinct |-> "none"]
         ELSE IF m.numDevices = 0
         THEN [m |-> [m EXCEPT !.attributes = MapPut(@, requestName, attribute[1]),
                               !.numDevices = 1],
               ret |-> TRUE, distinct |-> "none"]
         ELSE [m |-> [m EXCEPT !.attributes = MapPut(@, requestName, attribute[1]),
                               !.numDevices = @ + 1],
               ret |-> TRUE,
               distinct |-> IF distinctAttribute(m, attribute[1]) THEN "true" ELSE "false"]

\* func (m *distinctAttributeConstraint) remove(requestName, device, deviceID)
distinctAttributeConstraintRemove(m, requestName, device, deviceID) ==
    IF Cardinality(m.requestNames) > 0 /\ requestName \notin m.requestNames
    THEN m
    ELSE [m EXCEPT !.attributes = MapDel(@, requestName), !.numDevices = @ - 1]

\* the constraint of a claim: for all requests, or for r1 only
ConsNameValues == {{}, {"r1"}}

NoConsCall == [op |-> "none", ret |-> TRUE]

MatchInit ==
    /\ \E N \in ConsNameValues :
          matchC = [requestNames |-> N, attributeName |-> AttributeName,
                    attribute |-> <<>>, numDevices |-> 0]
    /\ matchAdded = {}
    /\ matchLast = NoConsCall

\* the allocator is about to allocate device g for request requestName;
\* a device is picked once
DoMatchAdd(requestName, g) ==
    /\ \A p \in matchAdded : p[2] # g
    /\ LET r == matchAttributeConstraintAdd(matchC, requestName, ConsDevice(g),
                                            ConsDevice(g))
       IN /\ matchC' = r.m
          /\ matchAdded' = IF r.ret THEN matchAdded \cup {<<requestName, g>>}
                           ELSE matchAdded
          /\ matchLast' = [op |-> "add", ret |-> r.ret, before |-> matchC]
    /\ UNCHANGED <<collVars, factVars, fitVars, polVars, shareVars, valVars>>
    /\ UNCHANGED distinctVars

\* the allocator backtracks: the one remove that matches a successful add
DoMatchRemove(requestName, g) ==
    /\ <<requestName, g>> \in matchAdded
    /\ matchC' = matchAttributeConstraintRemove(matchC, requestName, ConsDevice(g),
                                                ConsDevice(g))
    /\ matchAdded' = matchAdded \ {<<requestName, g>>}
    /\ matchLast' = [op |-> "remove", ret |-> TRUE, before |-> matchC]
    /\ UNCHANGED <<collVars, factVars, fitVars, polVars, shareVars, valVars>>
    /\ UNCHANGED distinctVars

MatchNext ==
    \E requestName \in ConsRequests, g \in ConsDevices :
        \/ DoMatchAdd(requestName, g)
        \/ DoMatchRemove(requestName, g)

DistinctInit ==
    /\ \E N \in ConsNameValues :
          distinctC = [requestNames |-> N, attributeName |-> AttributeName,
                       attributes |-> EmptyMap, numDevices |-> 0]
    /\ distinctAdded = {}
    /\ distinctLast = [op |-> "none", ret |-> TRUE, distinct |-> "none"]

DoDistinctAdd(requestName, g) ==
    /\ \A p \in distinctAdded : p[2] # g
    /\ LET r == distinctAttributeConstraintAdd(distinctC, requestName, ConsDevice(g),
                                               ConsDevice(g))
       IN /\ distinctC' = r.m
          /\ distinctAdded' = IF r.ret THEN distinctAdded \cup {<<requestName, g>>}
                              ELSE distinctAdded
          /\ distinctLast' = [op |-> "add", ret |-> r.ret, before |-> distinctC,
                              distinct |-> r.distinct]
    /\ UNCHANGED <<collVars, factVars, fitVars, polVars, shareVars, valVars>>
    /\ UNCHANGED matchVars

DoDistinctRemove(requestName, g) ==
    /\ <<requestName, g>> \in distinctAdded
    /\ distinctC' = distinctAttributeConstraintRemove(distinctC, requestName,
                                                      ConsDevice(g), ConsDevice(g))
    /\ distinctAdded' = distinctAdded \ {<<requestName, g>>}
    /\ distinctLast' = [op |-> "remove", ret |-> TRUE, before |-> distinctC,
                        distinct |-> "none"]
    /\ UNCHANGED <<collVars, factVars, fitVars, polVars, shareVars, valVars>>
    /\ UNCHANGED matchVars

DistinctNext ==
    \E requestName \in ConsRequests, g \in ConsDevices :
        \/ DoDistinctAdd(requestName, g)
        \/ DoDistinctRemove(requestName, g)

(***************************************************************************)
(* Specifications: one per component, the other components at rest.        *)
(***************************************************************************)
CollAtRest ==
    /\ mem = <<>>
    /\ coll = EmptyMap
    /\ arg = NoArg
    /\ lastOp = "none"
    /\ lastSub = EmptyMap
    /\ collInit = EmptyMap
    /\ pend = [x \in DCCValues |-> 0]
    /\ balanced = TRUE
    /\ insNonZero = TRUE
    /\ nOps = 0

FactAtRest ==
    /\ setObjs = <<{}, {}>>
    /\ usedRef = 1
    /\ mu = "free"
    /\ pc = [t \in Threads |-> "idle"]
    /\ loc = [t \in Threads |-> NoCall]
    /\ win = NewWin({})
    /\ lastDel = NoDel
    /\ lastGen = [t \in Threads |-> NoGen]
    /\ nCalls = 0

FitAtRest ==
    /\ fmem = <<>>
    /\ currentConsumedCapacity = EmptyMap
    /\ deviceRequestCapacity = <<>>
    /\ allowMultipleAllocations = <<>>
    /\ capacity = EmptyMap
    /\ allocatingCapacity = <<>>
    /\ fitIn = [cur |-> EmptyMap, req |-> <<>>, allow |-> <<>>,
                caps |-> EmptyMap, alloc |-> <<>>]
    /\ fitRes = "none"
    /\ fitOrder = <<>>
    /\ fitPrev = "none"
    /\ fitLess = NoLess
    /\ fitClone = EmptyMap
    /\ fitGot = NoGot
    /\ nFit = 0

PolAtRest ==
    /\ polMem = <<>>
    /\ polPolicy = <<>>
    /\ polReq = 0
    /\ polIn = [req |-> <<>>, policy |-> <<>>]
    /\ polOut = NoResult
    /\ polAgain = NoResult
    /\ polArg = <<>>
    /\ polViol = "none"

ValAtRest ==
    /\ valCap = [Value |-> Q(0), RequestPolicy |-> <<>>]
    /\ valOut = NoValidation
    /\ valRun = NoRun

MatchAtRest ==
    /\ matchC = [requestNames |-> {}, attributeName |-> AttributeName,
                 attribute |-> <<>>, numDevices |-> 0]
    /\ matchAdded = {}
    /\ matchLast = NoConsCall

DistinctAtRest ==
    /\ distinctC = [requestNames |-> {}, attributeName |-> AttributeName,
                    attributes |-> EmptyMap, numDevices |-> 0]
    /\ distinctAdded = {}
    /\ distinctLast = [op |-> "none", ret |-> TRUE, distinct |-> "none"]

ConsAtRest == MatchAtRest /\ DistinctAtRest

ShareAtRest ==
    /\ smem = <<>>
    /\ scoll = EmptyMap
    /\ sheld = NoArg
    /\ slastOp = "none"
    /\ nShare = 0

\* a collection under Insert and Remove calls, the factory untouched
InitColl ==
    CollInit /\ FactAtRest /\ FitAtRest /\ PolAtRest /\ ShareAtRest /\ ValAtRest
    /\ ConsAtRest

SpecColl == InitColl /\ [][CollNext]_vars

\* a factory under concurrent calls, the collection untouched
InitFactory ==
    FactInit /\ CollAtRest /\ FitAtRest /\ PolAtRest /\ ShareAtRest /\ ValAtRest
    /\ ConsAtRest

SpecFactory == InitFactory /\ [][FactNext]_vars

\* CmpRequestOverCapacity called on arguments a caller built
InitFit ==
    FitInit /\ CollAtRest /\ FactAtRest /\ PolAtRest /\ ShareAtRest /\ ValAtRest
    /\ ConsAtRest

SpecFit == InitFit /\ [][FitNext]_vars

\* calculateConsumedCapacity and violatesPolicy called on a request and a policy
InitPolicy ==
    PolInit /\ CollAtRest /\ FactAtRest /\ FitAtRest /\ ShareAtRest /\ ValAtRest
    /\ ConsAtRest

SpecPolicy == InitPolicy /\ [][PolNext]_vars

\* share.go's collection under Insert and Remove calls of a caller
InitShare ==
    ShareInit /\ CollAtRest /\ FactAtRest /\ FitAtRest /\ PolAtRest /\ ValAtRest
    /\ ConsAtRest

SpecShare == InitShare /\ [][ShareNext]_vars

\* the validator applied to a device capacity declaration
InitValidate ==
    ValInit /\ CollAtRest /\ FactAtRest /\ FitAtRest /\ PolAtRest /\ ShareAtRest
    /\ ConsAtRest

SpecValidate == InitValidate /\ [][ValNext]_vars

\* a matchAttributeConstraint under the allocator's add and remove calls
InitMatch ==
    MatchInit /\ CollAtRest /\ FactAtRest /\ FitAtRest /\ PolAtRest /\ ShareAtRest
    /\ ValAtRest /\ DistinctAtRest

SpecMatch == InitMatch /\ [][MatchNext]_vars

\* a distinctAttributeConstraint under the allocator's add and remove calls
InitDistinct ==
    DistinctInit /\ CollAtRest /\ FactAtRest /\ FitAtRest /\ PolAtRest /\ ShareAtRest
    /\ ValAtRest /\ MatchAtRest

SpecDistinct == InitDistinct /\ [][DistinctNext]_vars

(***************************************************************************)
(* Claims about the collection (checked under SpecColl).                   *)
(***************************************************************************)
\* every Insert has been undone by exactly one later Remove of the same argument
AllUndone == balanced /\ \A x \in DCCValues : pend[x] = 0

\* the quantity of name n on device d, a missing entry counting as zero
NumAt(cv, d, n) == IF d \in DOMAIN cv /\ n \in DOMAIN cv[d] THEN cv[d][n].v ELSE 0

\* a ConsumedCapacity value with no entry, or with zero quantities only
AllZero(cap) == \A n \in DOMAIN cap : cap[n].v = 0

HasZeroEntry(cv) == \E d \in DOMAIN cv : \E n \in DOMAIN cv[d] : cv[d][n].v = 0

C8_NoEmptyDevice ==
    collInit = EmptyMap => \A d \in DOMAIN coll : ~AllZero(CapVal(mem, coll[d]))

\* C8 amended: in every state reached from the empty collection by Insert
\* and Remove calls in which every inserted d holds non-negative quantities,
\* at least one of them non-zero, and every Remove(d) undoes an earlier
\* Insert(d) not yet removed, no device key maps to an empty or all-zero
\* ConsumedCapacity.
C8_NoEmptyDeviceWhenBalanced ==
    (collInit = EmptyMap /\ balanced /\ insNonZero) =>
        \A d \in DOMAIN coll : ~AllZero(CapVal(mem, coll[d]))

\* a Remove that left a device with a zero entry beside a non-zero one
C8_Witness ==
    /\ collInit = EmptyMap
    /\ balanced
    /\ insNonZero
    /\ lastOp = "Remove"
    /\ arg.id \in DOMAIN coll
    /\ HasZeroEntry(CollVal(mem, coll))

\* C9 as stated: after Sub, and so after Remove, no entry of the
\* ConsumedCapacity holds a zero quantity.
C9_NoZeroAfterSub ==
    lastOp = "Remove" =>
        /\ \A n \in DOMAIN lastSub : lastSub[n].v # 0
        /\ arg.id \in DOMAIN coll =>
              \A n \in DOMAIN coll[arg.id] : mem[coll[arg.id][n]].v # 0

\* C9 amended: Sub prunes nothing.  After Sub the ConsumedCapacity holds the
\* names it held before, each with its quantity less the subtracted one (an
\* entry subtracted down to zero stays, holding zero); Remove then deletes
\* the device key exactly when every entry is zero and otherwise leaves the
\* entries as Sub left them.
C9_SubKeepsEntries ==
    [][(lastOp' = "Remove" /\ nOps' = nOps + 1 /\ arg'.id \in DOMAIN coll) =>
          LET id  == arg'.id
              old == CapVal(mem, coll[id])
              d   == CapVal(mem', arg'.cc)
          IN /\ DOMAIN lastSub' = DOMAIN old
             /\ \A n \in DOMAIN old :
                   lastSub'[n].v = old[n].v - (IF n \in DOMAIN d THEN d[n].v ELSE 0)
             /\ (id \in DOMAIN coll') = (\E n \in DOMAIN old : lastSub'[n].v # 0)
             /\ id \in DOMAIN coll' => CapVal(mem', coll'[id]) = lastSub'
      ]_vars

\* a Remove whose Sub brought an entry to zero and kept the device
C9_Witness ==
    /\ lastOp = "Remove"
    /\ arg.id \in DOMAIN coll
    /\ \E n \in DOMAIN lastSub : lastSub[n].v = 0
    /\ \E n \in DOMAIN arg.cc : mem[arg.cc[n]].v > 0

(***************************************************************************)
(* Claims about the share-ID factory (checked under SpecFactory).          *)
(***************************************************************************)
\* the IDs issued in the current window are pairwise distinct, none was in
\* the used set when it was issued, and per device the used set has grown
\* by exactly the number of successful calls
WindowSound ==
    /\ Cardinality(win.issued) = win.n
    /\ ~win.stale
    /\ win.issued \cap win.base = {}
    /\ \A dev \in Devices :
          Cardinality(KeysOf(Used, dev)) =
              Cardinality(KeysOf(win.base, dev)) + Cardinality(KeysOf(win.issued, dev))

\* C3 as stated: for k successful GenerateNewShareID calls on a device with
\* no DeleteShareID in between, the returned IDs are pairwise distinct, none
\* was used before its call, and the used set grows by exactly k.
C3_DistinctSinceDelete == WindowSound

\* C3 amended: the same, for k successful calls with neither a DeleteShareID
\* nor a SetUsedShareIDs that replaces the used set in between.
C3_DistinctSinceDeleteOrSet == ~win.replaced => WindowSound

\* two successful calls on one device in a window
C3_Witness ==
    /\ ~win.replaced
    /\ \E dev \in Devices : Cardinality(KeysOf(win.issued, dev)) >= 2

\* C4: DeleteShareID removes the key from the used set when it is present
\* (so the ID can be issued again) and leaves the set unchanged otherwise.
C4_DeleteRemovesKey ==
    lastDel.done => lastDel.after = lastDel.before \ {lastDel.key}

\* C5: one GenerateNewShareID call draws at most maxTry candidates, the first
\* included, and returns the Exhausted error when all of them were used.
C5_AtMostMaxTryDraws ==
    \A t \in Threads :
        loc[t].op = "gen" =>
            /\ loc[t].draws <= loc[t].maxTry
            /\ loc[t].res = "Exhausted" => loc[t].count = loc[t].maxTry

OneInside ==
    /\ Cardinality({t \in Threads : pc[t] \in GuardedPcs}) <= 1
    /\ \A t \in Threads : pc[t] \in GuardedPcs => mu = t

\* both threads' latest generate calls ran concurrently, for one device, and returned
ConcurrentPair(t, u) ==
    /\ t # u
    /\ u \in lastGen[t].ov
    /\ lastGen[t].dev = lastGen[u].dev
    /\ lastGen[t].id # ""
    /\ lastGen[u].id # ""

\* C6 as stated: at most one call is inside its guarded region at a time, and
\* two concurrent generate calls for the same device never return the same ID.
C6_AtomicAndDistinct ==
    /\ OneInside
    /\ \A t, u \in Threads : ConcurrentPair(t, u) => lastGen[t].id # lastGen[u].id

\* C6 amended: at most one call is inside its guarded region at a time, and
\* two concurrent generate calls for the same device return different IDs
\* unless a SetUsedShareIDs that replaces the used set (or a DeleteShareID)
\* took effect after the first of them returned.
C6_AtomicAndDistinctUnlessReset ==
    /\ OneInside
    /\ \A t, u \in Threads :
          (ConcurrentPair(t, u) /\ ~lastGen[t].stale /\ ~lastGen[u].stale) =>
              lastGen[t].id # lastGen[u].id

\* two overlapping generate calls for one device have both returned an ID
C6_Witness ==
    \E t, u \in Threads :
        ConcurrentPair(t, u) /\ ~lastGen[t].stale /\ ~lastGen[u].stale

(***************************************************************************)
(* Claims about CmpRequestOverCapacity (checked under SpecFit).            *)
(***************************************************************************)
\* the quantity a value map holds for name n, a missing name counting as zero
NumOf(cc, n) == IF n \in DOMAIN cc THEN cc[n].v ELSE 0

\* the exact quantity the policy charges for request r (<<>> when the
\* request omits the name): the default for an omitted name, min below min,
\* min + step * ceil((r - min) / step) with a step, else r itself
Normalize(r, p) ==
    IF r = <<>> THEN (IF p.Default = <<>> THEN 0 ELSE p.Default[1].v)
    ELSE IF p.ValidRange = <<>> THEN r[1].v
    ELSE LET range == p.ValidRange[1] IN
         IF r[1].v < range.Min.v THEN range.Min.v
         ELSE IF range.Step = <<>> THEN r[1].v
         ELSE LET st == range.Step[1].v IN
              range.Min.v + st * ((r[1].v - range.Min.v + st - 1) \div st)

ShareableNames == {n \in DOMAIN fitIn.caps : fitIn.caps[n].SharingPolicy # <<>>}

RequestOf(n) ==
    IF fitIn.req # <<>> /\ n \in DOMAIN fitIn.req[1] THEN <<fitIn.req[1][n]>> ELSE <<>>

\* committed + normalize(request) + in-flight for a shareable name
TotalOf(n) ==
    NumOf(fitIn.cur, n)
    + Normalize(RequestOf(n), fitIn.caps[n].SharingPolicy[1])
    + (IF fitIn.alloc = <<>> THEN 0 ELSE NumOf(fitIn.alloc[1], n))

\* C1: whenever CmpRequestOverCapacity returns Fit, committed + normalized
\* request + in-flight is at most the capacity value for every shareable
\* name of the device; a call that returns Fit or NoFit returns NoFit when
\* that sum exceeds the value for some shareable name.
C1_FitWithinCapacity ==
    /\ fitRes = "Fit" =>
          \A n \in ShareableNames : TotalOf(n) <= fitIn.caps[n].Value.v
    /\ (fitRes \in {"Fit", "NoFit"}
          /\ \E n \in ShareableNames : TotalOf(n) > fitIn.caps[n].Value.v) =>
              fitRes = "NoFit"

RequestsUndeclared ==
    /\ fitIn.req # <<>>
    /\ \E n \in DOMAIN fitIn.req[1] : n \notin DOMAIN fitIn.caps

\* C2: a request that names a capacity the device does not declare makes
\* CmpRequestOverCapacity return the UnknownCapacity error, whatever the
\* committed and in-flight consumption and the declared capacities.
C2_UnknownCapacity ==
    (nFit > 0 /\ RequestsUndeclared) => fitRes = "UnknownCapacity"

\* a call with an undeclared name beside a declared one that would not fit
C2_Witness ==
    /\ nFit > 0
    /\ RequestsUndeclared
    /\ "c0" \in DOMAIN fitIn.req[1]
    /\ fitIn.req[1]["c0"].v > fitIn.caps["c0"].Value.v
    /\ fitRes = "UnknownCapacity"

C11_SameOutcome ==
    fitPrev # "none" => fitRes = fitPrev

\* the names the request gives a quantity for and the device declares
\* without a sharing policy
NonShareableRequested ==
    {n \in DOMAIN fitIn.caps :
        fitIn.caps[n].SharingPolicy = <<>> /\ RequestOf(n) # <<>>}

\* C12: for a capacity without a policy that the request names with r, a
\* call that returns at all returns NoFit when r exceeds the device value;
\* when r is at most the value and allowMultipleAllocations is true the call
\* ends with the NoGuarantee error, so it does not return Fit.
C12_NonShareable ==
    nFit > 0 =>
        /\ (fitRes \in {"Fit", "NoFit"}
              /\ \E n \in NonShareableRequested :
                    RequestOf(n)[1].v > fitIn.caps[n].Value.v) => fitRes = "NoFit"
        /\ (fitIn.allow = <<TRUE>> /\ NonShareableRequested # {}) => fitRes # "Fit"

(***************************************************************************)
(* Claims about calculateConsumedCapacity and violatesPolicy (checked      *)
(* under SpecPolicy).                                                      *)
(***************************************************************************)
\* the policy the caller built, by value (only where there is one)
PolicyIn == polIn.policy[1]

\* a call of calculateConsumedCapacity under a ValidRange policy with a default
RangeCalculated ==
    /\ polOut.st # "none"
    /\ PolicyIn.ValidRange # <<>>
    /\ PolicyIn.Default # <<>>

\* C13: under a ValidRange policy calculateConsumedCapacity returns the
\* default for an absent request, min for a request below min, otherwise
\* min + step * ceil((r - min) / step) with a step and r itself without one.
C13_RangeCharge ==
    RangeCalculated =>
        /\ polOut.st = "ok"
        /\ polOut.val # <<>>
        /\ polOut.val[1].v = Normalize(polIn.req, PolicyIn)

\* a call violatesPolicy(q, P) with P nil or a policy that has a default
ViolatesCalled ==
    /\ polViol # "none"
    /\ polArg # <<>>
    /\ polIn.policy # <<>> => PolicyIn.Default # <<>>

\* q is above the declared max, or off the declared step grid
OutsideRange(q, range) ==
    \/ range.Max # <<>> /\ q.v > range.Max[1].v
    \/ range.Step # <<>> /\ (q.v - range.Min.v) % range.Step[1].v # 0

\* q is numerically equal to none of the options
NoOption(q, options) == \A i \in 1..Len(options) : options[i].v # q.v

\* C14: violatesPolicy(q, P) is false when there is no policy and when q is
\* the default of P; otherwise, under ValidRange it is true exactly when a
\* max is declared and q is above it or a step is declared and
\* (q - min) mod step is not 0, and under ValidValues it is true exactly
\* when q is numerically equal to none of the options.
C14_Violates ==
    ViolatesCalled =>
        IF polIn.policy = <<>> THEN polViol = "false"
        ELSE IF polArg[1] = PolicyIn.Default[1] THEN polViol = "false"
        ELSE IF PolicyIn.ValidRange # <<>>
        THEN /\ polViol \in {"true", "false"}
             /\ polViol = "true" <=> OutsideRange(polArg[1], PolicyIn.ValidRange[1])
        ELSE PolicyIn.ValidValues # <<>> =>
                /\ polViol \in {"true", "false"}
                /\ polViol = "true" <=> NoOption(polArg[1], PolicyIn.ValidValues[1])

\* a call of calculateConsumedCapacity on a present request under a policy
\* with options and no range
ValuesCalculated ==
    /\ polOut.st # "none"
    /\ polIn.req # <<>>
    /\ PolicyIn.ValidRange = <<>>
    /\ PolicyIn.ValidValues # <<>>

\* the smallest option that is at least q; q itself when there is none
RoundUpInSet(q, options) ==
    LET ups == {options[i].v : i \in 1..Len(options)} \cap q.v..(2^(IntBits - 1) - 1) IN
    IF ups = {} THEN q.v ELSE CHOOSE o \in ups : \A x \in ups : o <= x

\* C16: under ValidValues, calculateConsumedCapacity on a present request
\* returns the smallest option that is at least the request (the request
\* itself when it is an option), and the request unchanged when it is
\* larger than every option.
C16_RoundUpInSet ==
    ValuesCalculated =>
        /\ polOut.st = "ok"
        /\ polOut.val # <<>>
        /\ polOut.val[1].v = RoundUpInSet(polIn.req[1], PolicyIn.ValidValues[1])

\* the policy has a default and passes validation for some capacity value
ValidWithDefault ==
    /\ polIn.policy # <<>>
    /\ PolicyIn.Default # <<>>
    /\ \E V \in PolQuantities : validateMultiAllocatableDeviceCapacity(V, polIn.policy) = {}

\* C17: for every policy P that passes validation, violatesPolicy(P.default, P)
\* is false and calculateConsumedCapacity(absent, P) returns P.default.
C17_DefaultAccepted ==
    ValidWithDefault =>
        /\ (polViol # "none" /\ polArg = PolicyIn.Default) => polViol = "false"
        /\ (polOut.st # "none" /\ polIn.req = <<>>) =>
              (polOut.st = "ok" /\ polOut.val = PolicyIn.Default)

\* two results of calculateConsumedCapacity are the same: both nil, or
\* numerically equal quantities
SameCharge(a, b) ==
    IF a = <<>> \/ b = <<>> THEN a = b ELSE a[1].v = b[1].v

\* C18: calculateConsumedCapacity applied to its own result returns that
\* result again, for every request (present or absent) and every policy.
C18_Idempotent ==
    polAgain.st # "none" =>
        (polAgain.st = "ok" /\ SameCharge(polAgain.val, polOut.val))

\* a call of calculateConsumedCapacity under a ValidRange policy with a
\* step, on a present request that is at least min
StepCalculated ==
    /\ polOut.st # "none"
    /\ PolicyIn.ValidRange # <<>>
    /\ PolicyIn.ValidRange[1].Step # <<>>
    /\ polIn.req # <<>>
    /\ polIn.req[1].v >= PolicyIn.ValidRange[1].Min.v

\* C19: under ValidRange with a step and a request at least min, the result
\* of calculateConsumedCapacity is a quantity with (result - min) mod step
\* = 0, and violatesPolicy on that result is true only when it is above a
\* declared max, never for being off the grid.
C19_OnGrid ==
    StepCalculated =>
        LET range == PolicyIn.ValidRange[1] IN
        /\ polOut.st = "ok"
        /\ polOut.val # <<>>
        /\ (polOut.val[1].v - range.Min.v) % range.Step[1].v = 0
        /\ (polViol = "true" /\ polArg = polOut.val) =>
              (range.Max # <<>> /\ polOut.val[1].v > range.Max[1].v)

(***************************************************************************)
(* Further claims about CmpRequestOverCapacity (checked under SpecFit).    *)
(***************************************************************************)
\* the names the device declares with a ValidValues policy (options and a
\* default, no range)
ValidValuesNames ==
    {n \in ShareableNames :
        LET p == fitIn.caps[n].SharingPolicy[1] IN
        p.ValidRange = <<>> /\ p.ValidValues # <<>> /\ p.Default # <<>>}

\* the request names n with a quantity that is none of n's options
NotAnOption(n) ==
    /\ RequestOf(n) # <<>>
    /\ NoOption(RequestOf(n)[1], fitIn.caps[n].SharingPolicy[1].ValidValues[1])

C20_MonotoneFit ==
    (fitRes = "Fit" /\ fitIn.alloc = <<>> /\ fitLess # NoLess) => fitLess.res = "Fit"

\* a request that fits beside committed consumption was tried again on
\* strictly less committed consumption
C20_Witness ==
    /\ fitRes = "Fit"
    /\ fitIn.alloc = <<>>
    /\ fitLess.res = "Fit"
    /\ \E n \in ShareableNames :
          /\ RequestOf(n) # <<>>
          /\ NumOf(fitLess.cur, n) < NumOf(fitIn.cur, n)

\* the quantity a call that returned Fit added to its clone for the request
\* on shareable name n: what the clone holds beyond the committed and the
\* in-flight consumption
ChargedOf(n) ==
    NumOf(fitClone, n) - NumOf(fitIn.cur, n)
    - (IF fitIn.alloc = <<>> THEN 0 ELSE NumOf(fitIn.alloc[1], n))

\* C21: whenever CmpRequestOverCapacity returns Fit, the quantity charged
\* for each shareable capacity is at least the requested quantity, when the
\* request gives one, and at most the device's capacity value.
C21_ChargeBetween ==
    fitRes = "Fit" =>
        \A n \in ShareableNames :
            /\ RequestOf(n) # <<>> => ChargedOf(n) >= RequestOf(n)[1].v
            /\ ChargedOf(n) <= fitIn.caps[n].Value.v

\* C22: GetConsumedCapacityFromRequest returns exactly one entry per
\* shareable capacity of the device, whether or not the request names it,
\* and none for a capacity without a sharing policy; after a call of
\* CmpRequestOverCapacity that returned Fit each entry equals the quantity
\* that call charged for the name.
C22_ConsumedFromRequest ==
    fitGot # NoGot =>
        /\ fitGot.res = "Returned"
        /\ DOMAIN fitGot.out = ShareableNames
        /\ fitRes = "Fit" =>
              \A n \in ShareableNames : fitGot.out[n].v = ChargedOf(n)

(***************************************************************************)
(* Further claims about the collection (checked under SpecColl).           *)
(***************************************************************************)
\* from the empty collection, d is the only argument with Inserts that no
\* Remove has undone yet: pend[d] is the number of Inserts of d less the
\* number of its Removes
OnlyPending(d) ==
    /\ collInit = EmptyMap
    /\ balanced
    /\ pend[d] > 0
    /\ \A x \in DCCValues \ {d} : pend[x] = 0

\* C23 as stated: after inserting the same d n times and removing it m
\* times, m < n, the collection's entry for d's device holds (n - m) times
\* d's quantity for every name of d.
C23_InsertAccumulates ==
    \A d \in DCCValues :
        OnlyPending(d) =>
            \A n \in DOMAIN d.cap :
                /\ d.id \in DOMAIN coll
                /\ n \in DOMAIN coll[d.id]
                /\ mem[coll[d.id][n]].v = pend[d] * d.cap[n].v

\* C23 amended: after inserting the same d n times and removing it m times,
\* m < n, the collection holds (n - m) times d's quantity for d's device and
\* every name of d, a missing entry counting as zero; the device's entry
\* exists and holds every name of d when some quantity of d is not zero,
\* and a Remove of a d whose quantities are all zero can delete it.
C23_InsertAccumulatesUpToZero ==
    \A d \in DCCValues :
        OnlyPending(d) =>
            /\ \A n \in DOMAIN d.cap :
                  NumAt(CollVal(mem, coll), d.id, n) = pend[d] * d.cap[n].v
            /\ ~AllZero(d.cap) =>
                  /\ d.id \in DOMAIN coll
                  /\ DOMAIN d.cap \subseteq DOMAIN coll[d.id]

\* two Inserts of a d with a non-zero quantity and one Remove of it
C23_Witness ==
    /\ lastOp = "Remove"
    /\ nOps = 3
    /\ \E d \in DCCValues :
          /\ OnlyPending(d)
          /\ pend[d] = 1
          /\ ~AllZero(d.cap)
          /\ arg.id = d.id
          /\ CapVal(mem, arg.cc) = d.cap

\* C25: Remove for a device that has no entry leaves the whole collection
\* unchanged.  Sub ignores the capacity names its receiver does not hold:
\* after Sub the receiver holds the names it held before, no other, and
\* every entry whose name the argument does not carry keeps its quantity;
\* the entries of the other devices are left as they were.
C25_RemoveIgnoresMissing ==
    [][lastOp' = "Remove" =>
          LET id     == arg'.id
              dcap   == CapVal(mem', arg'.cc)
              before == CollVal(mem, coll)
              after  == CollVal(mem', coll')
          IN /\ id \notin DOMAIN coll => after = before
             /\ id \in DOMAIN coll =>
                   /\ DOMAIN lastSub' = DOMAIN before[id]
                   /\ \A n \in DOMAIN lastSub' :
                         n \notin DOMAIN dcap => lastSub'[n] = before[id][n]
                   /\ DOMAIN coll' \subseteq DOMAIN coll
                   /\ \A x \in DOMAIN coll \ {id} :
                         x \in DOMAIN coll' /\ after[x] = before[x]]_vars

\* a Remove whose argument carries a name the device's entry does not hold,
\* beside another device
C25_Witness ==
    /\ lastOp = "Remove"
    /\ arg.id \in DOMAIN coll
    /\ DOMAIN coll # {arg.id}
    /\ \E n \in DOMAIN arg.cc : n \notin DOMAIN coll[arg.id]

(***************************************************************************)
(* Further claims about the factory (checked under SpecFactory).           *)
(***************************************************************************)
\* thread t is about to return from GenerateNewShareID with an error
GenFailed(t) ==
    pc[t] = "genUnlock" /\ loc[t].res \in {"Exhausted", "RngFailure"}

\* every ID of device dev is in S
AllUsed(S, dev) == \A id \in IDs : MakeSharedDeviceID(dev, id) \in S

\* C26: a GenerateNewShareID call that fails (Exhausted or RngFailure)
\* leaves the used set as it was when the call took the lock, and a call
\* that finds every ID of its device in the used set returns an error,
\* Exhausted unless rand.Read failed, never an ID.
C26_FailureLeavesUsed ==
    \A t \in Threads :
        /\ GenFailed(t) => Used = loc[t].before
        /\ (pc[t] \in {"genInsert", "genUnlock"} /\ AllUsed(loc[t].before, loc[t].dev)) =>
              GenFailed(t)

\* a call on a device whose IDs are all used is about to return Exhausted
C26_Witness ==
    \E t \in Threads :
        /\ pc[t] = "genUnlock"
        /\ loc[t].res = "Exhausted"
        /\ AllUsed(loc[t].before, loc[t].dev)
        /\ Used # {}

\* thread t is about to return from SetUsedShareIDs
SetDone(t) == pc[t] = "setUnlock"

\* the set SetUsedShareIDs was given: a nil set holds nothing
GivenSet(t) == IF loc[t].ref = 0 THEN {} ELSE setObjs[loc[t].ref]

\* thread t is about to return an ID from GenerateNewShareID
GenReturnsID(t) == pc[t] = "genUnlock" /\ loc[t].res = "id"

\* C27 as stated: after SetUsedShareIDs(S) the factory's used set is exactly
\* S for every S, an empty or a nil set included, and generate returns no ID
\* that was in the used set when the call began.
C27_SetReplaces ==
    \A t \in Threads :
        /\ SetDone(t) => Used = GivenSet(t)
        /\ GenReturnsID(t) =>
              MakeSharedDeviceID(loc[t].dev, loc[t].cand) \notin loc[t].before

\* C27 amended: after SetUsedShareIDs(S) with S not nil the factory's used
\* set is exactly S, an empty S included: the IDs used before and not in S
\* are forgotten; SetUsedShareIDs(nil) is ignored and leaves the used set
\* as it was.  Generate returns no ID that was in the used set when the call
\* began.
C27_SetReplacesUnlessNil ==
    \A t \in Threads :
        /\ (SetDone(t) /\ loc[t].ref # 0) => Used = GivenSet(t)
        /\ (SetDone(t) /\ loc[t].ref = 0) => Used = loc[t].before
        /\ GenReturnsID(t) =>
              MakeSharedDeviceID(loc[t].dev, loc[t].cand) \notin loc[t].before

\* a SetUsedShareIDs that made the factory forget an ID it had issued
C27_Witness ==
    \E t \in Threads :
        /\ SetDone(t)
        /\ loc[t].ref # 0
        /\ loc[t].before # {}
        /\ ~(loc[t].before \subseteq Used)

(***************************************************************************)
(* Claims about share.go's collection (checked under SpecShare).           *)
(***************************************************************************)
\* C24: Insert never aliases the caller's quantities.  After Insert(d), a
\* later Insert or Remove on the collection leaves the quantities of d as
\* they were, and a later change of a quantity of d leaves the collection as
\* it was, whether the device had an entry when d was inserted or not and
\* whether Insert created capacity names for it or not.
C24_InsertNeverAliases ==
    [][/\ (sheld # NoArg /\ slastOp' \in {"Insert", "Remove"}) =>
              CapVal(smem', sheld.cc) = CapVal(smem, sheld.cc)
       /\ slastOp' = "Change" => CollVal(smem', scoll') = CollVal(smem, scoll)]_vars

(***************************************************************************)
(* Claims about the validator (checked under SpecValidate).                *)
(***************************************************************************)
\* the declaration's policy populates both ValidRange and ValidValues
BothVariants ==
    /\ valCap.RequestPolicy # <<>>
    /\ valCap.RequestPolicy[1].ValidRange # <<>>
    /\ valCap.RequestPolicy[1].ValidValues # <<>>

\* C28: validation of a device capacity whose policy populates both
\* ValidRange and ValidValues fails with the conflict (forbidden) failure,
\* whatever the values of the two variants; a capacity with no policy
\* always validates.
C28_ConflictOrNoPolicy ==
    valOut.done =>
        /\ BothVariants => Failure("exactly one policy can be specified", 0) \in valOut.errs
        /\ valCap.RequestPolicy = <<>> => valOut.errs = {}

\* a policy with both variants, each of them valid on its own, was rejected
C28_Witness ==
    /\ valOut.done
    /\ BothVariants
    /\ validValuesFailures(valCap.Value, valCap.RequestPolicy[1]) = {}
    /\ validRangeFailures(valCap.Value, valCap.RequestPolicy[1]) = {}
    /\ valOut.errs # {}

\* the declaration's policy has a default and ValidRange only
RangeOnly ==
    /\ valCap.RequestPolicy # <<>>
    /\ valCap.RequestPolicy[1].Default # <<>>
    /\ valCap.RequestPolicy[1].ValidRange # <<>>
    /\ valCap.RequestPolicy[1].ValidValues = <<>>

\* the declaration's policy has a default and ValidValues only
ValuesOnly ==
    /\ valCap.RequestPolicy # <<>>
    /\ valCap.RequestPolicy[1].Default # <<>>
    /\ valCap.RequestPolicy[1].ValidRange = <<>>
    /\ valCap.RequestPolicy[1].ValidValues # <<>>

Reported(rule) == Failure(rule, 0) \in valOut.errs

\* C29: the validator does not stop at the first failure.  For a ValidRange
\* policy its result holds one failure for each broken rule and none for a
\* rule that is kept: minimum above the capacity value, default below the
\* minimum, minimum above the maximum, default above the maximum, maximum
\* above the capacity value, maximum off the step grid, default off the
\* step grid, one step above the capacity value; for a ValidValues policy
\* it holds a failure for every option above the capacity value and one for
\* a default that is no option.
C29_EveryBrokenRuleReported ==
    valOut.done =>
        /\ RangeOnly =>
              LET V == valCap.Value.v
                  d == valCap.RequestPolicy[1].Default[1].v
                  r == valCap.RequestPolicy[1].ValidRange[1]
                  m == r.Min.v
              IN /\ Reported("minimum is larger than capacity value") <=> m > V
                 /\ Reported("default is less than minimum") <=> d < m
                 /\ Reported("minimum is larger than maximum") <=>
                       (r.Max # <<>> /\ m > r.Max[1].v)
                 /\ Reported("default is more than maximum") <=>
                       (r.Max # <<>> /\ d > r.Max[1].v)
                 /\ Reported("maximum is larger than capacity value") <=>
                       (r.Max # <<>> /\ r.Max[1].v > V)
                 /\ Reported("maximum is not a multiple of step from minimum") <=>
                       (r.Max # <<>> /\ r.Step # <<>>
                          /\ (r.Max[1].v - m) % Abs(r.Step[1].v) # 0)
                 /\ Reported("default is not a multiple of step from minimum") <=>
                       (r.Step # <<>> /\ (d - m) % Abs(r.Step[1].v) # 0)
                 /\ Reported("one step is larger than capacity value") <=>
                       (r.Max = <<>> /\ r.Step # <<>> /\ m + r.Step[1].v > V)
        /\ ValuesOnly =>
              LET V == valCap.Value.v
                  d == valCap.RequestPolicy[1].Default[1].v
                  o == valCap.RequestPolicy[1].ValidValues[1]
              IN /\ \A i \in 1..Len(o) :
                       Failure("option is larger than capacity value", i) \in valOut.errs
                          <=> o[i].v > V
                 /\ Reported("default value is not valid") <=>
                       ~\E i \in 1..Len(o) : o[i].v = d

\* the four failures of one ValidRange policy: minimum above the capacity
\* value, default below minimum, minimum above maximum, default above maximum
C29_Witness ==
    /\ valOut.done
    /\ RangeOnly
    /\ Reported("minimum is larger than capacity value")
    /\ Reported("default is less than minimum")
    /\ Reported("minimum is larger than maximum")
    /\ Reported("default is more than maximum")
    /\ Cardinality(valOut.errs) = 4

\* C30: the validator accepts a ValidRange policy {min m, max M?, step s?,
\* default d} for capacity value V exactly when m <= V; d >= m; if M is
\* present, m <= M <= V and d <= M; if s is present and M absent,
\* m + s <= V; if s and M are present, (M - m) mod s = 0; and if s is
\* present, (d - m) mod s = 0.
C30_RangeAccepted ==
    (valOut.done /\ RangeOnly) =>
        LET V == valCap.Value.v
            d == valCap.RequestPolicy[1].Default[1].v
            r == valCap.RequestPolicy[1].ValidRange[1]
            m == r.Min.v
        IN valOut.errs = {} <=>
              /\ m <= V
              /\ d >= m
              /\ r.Max # <<>> => (m <= r.Max[1].v /\ r.Max[1].v <= V /\ d <= r.Max[1].v)
              /\ (r.Step # <<>> /\ r.Max = <<>>) => m + r.Step[1].v <= V
              /\ (r.Step # <<>> /\ r.Max # <<>>) => (r.Max[1].v - m) % Abs(r.Step[1].v) = 0
              /\ r.Step # <<>> => (d - m) % Abs(r.Step[1].v) = 0

\* an accepted ValidRange policy with a maximum, a step and a default above
\* the minimum
C30_Witness ==
    /\ valOut.done
    /\ RangeOnly
    /\ valOut.errs = {}
    /\ valCap.RequestPolicy[1].ValidRange[1].Max # <<>>
    /\ valCap.RequestPolicy[1].ValidRange[1].Step # <<>>
    /\ valCap.RequestPolicy[1].Default[1].v > valCap.RequestPolicy[1].ValidRange[1].Min.v

\* the declaration's policy has ValidValues only, with or without a default
ValuesPolicy ==
    /\ valCap.RequestPolicy # <<>>
    /\ valCap.RequestPolicy[1].ValidRange = <<>>
    /\ valCap.RequestPolicy[1].ValidValues # <<>>

\* C31: the validator accepts a ValidValues policy for capacity value V
\* exactly when the options are non-empty and strictly ascending by numeric
\* value, every option is at most V, and the default is numerically equal
\* to one of the options; a numerically equal repeat is reported as a
\* duplicate at the index of the second occurrence, an out-of-order option
\* as invalid at its index.
C31_ValuesAccepted ==
    (valOut.done /\ ValuesPolicy) =>
        LET V == valCap.Value.v
            D == valCap.RequestPolicy[1].Default
            o == valCap.RequestPolicy[1].ValidValues[1]
        IN /\ valOut.errs = {} <=>
                 /\ Len(o) > 0
                 /\ \A i \in 2..Len(o) : o[i - 1].v < o[i].v
                 /\ \A i \in 1..Len(o) : o[i].v <= V
                 /\ D # <<>>
                 /\ \E i \in 1..Len(o) : o[i].v = D[1].v
           /\ \A i \in 2..Len(o) :
                 /\ o[i].v = o[i - 1].v => Failure("duplicate", i) \in valOut.errs
                 /\ o[i].v < o[i - 1].v =>
                       Failure("values must be sorted in ascending order", i)
                           \in valOut.errs

\* options within the capacity value, the default among them, rejected only
\* because the second option is below the first
C31_Witness ==
    /\ valOut.done
    /\ ValuesPolicy
    /\ valOut.errs = {Failure("values must be sorted in ascending order", 2)}

(***************************************************************************)
(* Claims that join the validator and the fit check.                       *)
(***************************************************************************)
\* the validator accepts every capacity the device declares
DeviceAccepted ==
    \A n \in DOMAIN fitIn.caps :
        validateMultiAllocatableDeviceCapacity(fitIn.caps[n].Value,
                                               fitIn.caps[n].SharingPolicy) = {}

\* C32: CmpRequestOverCapacity and GetConsumedCapacityFromRequest return a
\* result, without dereferencing a missing quantity, for every device
\* capacity that the validator accepts, also for a sharing policy with
\* neither validRange nor validValues and for a policy without a default,
\* when the request omits that capacity.
C32_NoNilDereference ==
    DeviceAccepted => (fitRes # "Panic" /\ fitGot.res # "Panic")

(***************************************************************************)
(* Claims about the integer arithmetic of the step (checked under          *)
(* SpecPolicy).                                                            *)
(***************************************************************************)
\* C33: with a step, calculateConsumedCapacity yields the exact value
\* min + step * ceil((r - min) / step) for every r, min and step that the
\* integer width represents with r at least min: the computation does not
\* wrap around, so the charged quantity is never smaller than the request.
C33_NoWrapAround ==
    StepCalculated =>
        /\ polOut.st = "ok"
        /\ polOut.val # <<>>
        /\ polOut.val[1].v = Normalize(polIn.req, PolicyIn)
        /\ polOut.val[1].v >= polIn.req[1].v

(***************************************************************************)
(* Claims about what an accepted declaration guarantees at run time.       *)
(***************************************************************************)
\* the validator accepted a ValidRange policy
RangeAccepted == valOut.done /\ RangeOnly /\ valOut.errs = {}

RangeIn == valCap.RequestPolicy[1].ValidRange[1]

\* C34: for every ValidRange policy with a step that the validator accepts,
\* the step is strictly positive (so that calculateConsumedCapacity and
\* violatesPolicy never divide by zero).
C34_StepPositive ==
    (RangeAccepted /\ RangeIn.Step # <<>>) => RangeIn.Step[1].v > 0

\* the allocator checked a request for r against the accepted range policy
InRangeRequested ==
    /\ RangeAccepted
    /\ RangeIn.Max # <<>>
    /\ RangeIn.Step # <<>>
    /\ valRun.done
    /\ valRun.req # <<>>
    /\ RangeIn.Min.v <= valRun.req[1]["c0"].v
    /\ valRun.req[1]["c0"].v <= RangeIn.Max[1].v

\* C35: for every ValidRange policy with both max and step that the
\* validator accepts, every request r with min <= r <= max is normalized to
\* a value that is at most max, so rounding up to the step grid never turns
\* an in-range request into NoFit.
C35_InRangeStaysInRange ==
    InRangeRequested =>
        /\ valRun.got.res = "Returned"
        /\ valRun.got.out["c0"].v <= RangeIn.Max[1].v
        /\ valRun.res # "NoFit"

\* the allocator checked a request that omits the capacity against an
\* accepted ValidRange or ValidValues policy
OmittedRequested ==
    /\ valOut.done
    /\ valOut.errs = {}
    /\ RangeOnly \/ ValuesOnly
    /\ valRun.done
    /\ valRun.req = <<>>

\* C36: for every device capacity with a ValidRange or ValidValues policy
\* that the validator accepts, a request that omits the capacity fits on a
\* device with no committed and no in-flight consumption: the policy
\* default is at most the capacity value, also when the range declares no
\* max.
C36_DefaultFits ==
    OmittedRequested =>
        /\ valCap.RequestPolicy[1].Default[1].v <= valCap.Value.v
        /\ valRun.res = "Fit"

(***************************************************************************)
(* Claims about the ownership of the factory's used set (checked under     *)
(* SpecFactory).  Set object 2 is the set the caller built and passes to   *)
(* SetUsedShareIDs; no action of the model is a change by the caller.      *)
(***************************************************************************)
\* C37: after SetUsedShareIDs(S) the factory holds its own set: no step of
\* GenerateNewShareID (or of any other factory operation) adds entries to
\* or removes entries from the caller's S.
C37_CallersSetUntouched ==
    [][setObjs'[2] = setObjs[2]]_vars

(***************************************************************************)
(* Claims about matchAttributeConstraint (checked under SpecMatch).        *)
(***************************************************************************)
\* the constraint applies to the request
Applies(m, requestName) == m.requestNames = {} \/ requestName \in m.requestNames

\* the devices the constraint tracks: added for a request it applies to
\* and not removed since
MatchTracked == {p[2] : p \in {q \in matchAdded : Applies(matchC, q[1])}}

AttributeOf(g) == lookupAttribute(ConsDevice(g), ConsDevice(g), AttributeName)[1]

\* the type of an attribute's value and the value as text
TypeOf(a) ==
    IF a.StringValue # 0 THEN "string" ELSE IF a.IntValue # 0 THEN "int"
    ELSE IF a.BoolValue # 0 THEN "bool" ELSE IF a.VersionValue # 0 THEN "version"
    ELSE "unknown"

ValueOf(a) ==
    IF a.StringValue # 0 THEN AttrMem[a.StringValue]
    ELSE IF a.IntValue # 0 THEN AttrMem[a.IntValue]
    ELSE IF a.BoolValue # 0 THEN AttrMem[a.BoolValue]
    ELSE IF a.VersionValue # 0 THEN AttrMem[a.VersionValue]
    ELSE ""

\* C38: matchAttributeConstraint, after any sequence of add and remove
\* calls in which every successful add is matched by exactly one later
\* remove with the same parameters: all devices currently tracked have the
\* same attribute value of the same type, numDevices equals the number of
\* tracked devices, and an add that returns false leaves the constraint
\* unchanged.
C38_MatchTracksEqualValues ==
    /\ \A g \in MatchTracked, h \in MatchTracked :
          /\ TypeOf(AttributeOf(g)) = TypeOf(AttributeOf(h))
          /\ ValueOf(AttributeOf(g)) = ValueOf(AttributeOf(h))
    /\ matchC.numDevices = Cardinality(MatchTracked)
    /\ (matchLast.op = "add" /\ ~matchLast.ret) => matchC = matchLast.before

\* two devices with the same value are tracked and the add of a third
\* device was refused
C38_Witness ==
    /\ Cardinality(MatchTracked) = 2
    /\ matchLast.op = "add"
    /\ ~matchLast.ret

(***************************************************************************)
(* Claims about distinctAttributeConstraint (checked under SpecDistinct).  *)
(***************************************************************************)
DistinctTracked == {p[2] : p \in {q \in distinctAdded : Applies(distinctC, q[1])}}

\* C39: distinctAttributeConstraint.add returns false and leaves the
\* constraint unchanged when the device's attribute value equals the value
\* of a device already tracked, so after any sequence of add and remove
\* calls the tracked devices have pairwise distinct attribute values.
C39_DistinctValues ==
    \A g \in DistinctTracked, h \in DistinctTracked :
        g # h => ~(/\ TypeOf(AttributeOf(g)) = TypeOf(AttributeOf(h))
                   /\ ValueOf(AttributeOf(g)) = ValueOf(AttributeOf(h)))

\* C40: distinctAttributeConstraint, after any sequence of add calls and
\* one matching remove per successful add: numDevices equals the number of
\* entries of the attributes map, also when two devices are added for the
\* same request name, and once every added device has been removed both
\* are back to their initial empty values.
C40_CountMatchesMap ==
    /\ distinctC.numDevices = Cardinality(DOMAIN distinctC.attributes)
    /\ distinctAdded = {} =>
          (distinctC.numDevices = 0 /\ distinctC.attributes = EmptyMap)

====
